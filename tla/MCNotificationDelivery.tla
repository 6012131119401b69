----------------------- MODULE MCNotificationDelivery -----------------------
(***************************************************************************)
(* Two notifications, two passes, one retry and two faults: enough for a   *)
(* claim to be lost to another pass while its owner is still sending, and  *)
(* for a second fault in what follows.                                     *)
(***************************************************************************)
EXTENDS NotificationDelivery
=============================================================================
