----------------------------- MODULE MCStorage ------------------------------
(* Constants for model checking Storage.                                   *)
EXTENDS StorageProperties

\* A disk with other data, or with the signature of an earlier boot.
MCOldBlock == {"other", "signature"}

MCMessages == [rdi : 0..13, rsi : {0, TestLba}]
MCZeroMsg  == Message(0, 0)
MCLines    == {Ata}
=============================================================================
