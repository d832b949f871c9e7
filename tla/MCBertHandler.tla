----------------------------- MODULE MCBertHandler -----------------------------
(* Small instances of BertHandler: two record files, two blocks each.       *)
EXTENDS BertHandler
===============================================================================
