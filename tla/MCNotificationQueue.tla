------------------------- MODULE MCNotificationQueue -------------------------
(* Small instances of NotificationQueue for TLC.                            *)
EXTENDS NotificationQueue

CONSTANTS r1, none, w1

MCKinds == {"reminder", "custom"}
MCReservations == {r1}
OneWorker == {w1}
MCDelays == {1}
MCBodies == {0}
=============================================================================
