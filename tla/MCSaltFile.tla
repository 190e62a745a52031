----------------------------- MODULE MCSaltFile -----------------------------
(* Two processes of two threads each, that run when they please.           *)
EXTENDS SaltFile, Naturals

MCThreads == {"a1", "a2", "b1", "b2"}
MCProcess == [a1 |-> "a", a2 |-> "a", b1 |-> "b", b2 |-> "b"]
=============================================================================
