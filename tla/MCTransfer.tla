----------------------------- MODULE MCTransfer -----------------------------
(* Small instances of Transfer for TLC. *)
EXTENDS Transfer
CONSTANTS u1, u2

\* A large file that a program goes on writing into, or leftovers of it, on a
\* server that checks what it assembles, or cannot tell.
Into(n, by, what) == [by |-> by, sizes |-> {"large"}, servers |-> {"verifies", "silent"},
                      what |-> what, max |-> n]
\* A file of any size replaced here and by others, with a checksum or without.
Over(n, what) == [by |-> {u1}, sizes |-> {"small", "large"}, servers |-> {"computes", "silent"},
                  what |-> what, max |-> n]
MCCases == {
  Into(1, {u1}, {"inplace", "lost", "layout", "gc"}),
  Into(2, {u1, u2}, {"inplace", "unseen", "layout"}),
  Into(2, {u1}, {"inplace", "unseen", "refused"}),
  Into(2, {u1}, {"replace", "lost", "layout"}),
  Over(1, {"replace", "theirs", "gc", "lost", "refused", "held", "crash"}),
  Over(2, {"replace", "theirs", "gc", "lost", "refused", "held"}),
  Over(2, {"replace", "theirs", "gc", "refused", "held", "crash"}),
  Over(2, {"theirs", "lost", "crash"})}
=============================================================================
