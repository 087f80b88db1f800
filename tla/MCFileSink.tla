----------------------------- MODULE MCFileSink -----------------------------
(* Instances of FileSink for TLC. *)
EXTENDS FileSink

FiveRecords == <<"rows", "unmapped", "empty", "rows", "unmapped">>

AllSetups == [format : {"parquet", "avro"}, mode : {"raw", "rows", "columns"},
              onFull : {"dropOldest", "stop"}, rolls : BOOLEAN, forever : BOOLEAN]
=============================================================================
