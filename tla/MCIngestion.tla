------------------------------ MODULE MCIngestion ------------------------------
(****************************************************************************)
(* Small instances of Ingestion: two sound datasets about the same stores,  *)
(* items and days (say, two releases of the files), and four bad ones.      *)
(****************************************************************************)
EXTENDS Ingestion

MCDatasets == {"old", "new", "negative", "duplicated", "malformed", "missing"}
MCKeysOf == [d \in MCDatasets |-> IF d = "duplicated" THEN "other" ELSE "m5"]
MCRejects ==
    [d \in MCDatasets |->
        CASE d = "duplicated" -> {"skus"}       \* one item in two departments
          [] d = "malformed"  -> {"stg_prices"}
          [] d = "missing"    -> {"files"}
          [] OTHER            -> {}]
MCFlaws == [d \in MCDatasets |-> IF d = "negative" THEN {"sales"} ELSE {}]
================================================================================
