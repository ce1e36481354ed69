--------------------------- MODULE MCSqliteManifest ---------------------------
(* Processes sharing one small manifest database.                          *)
EXTENDS SqliteManifest

OneInstant == {1}
===============================================================================
