---------------------------- MODULE MCDeskAccounts ----------------------------
(* Small instances of DeskAccounts for TLC: threads are interchangeable,    *)
(* usernames are not, as SMP_ADMIN_EMAILS lists one of them.                *)
EXTENDS DeskAccounts, TLC

Interchangeable == Permutations(Threads)
================================================================================
