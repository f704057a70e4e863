------------------------------- MODULE MCBoot -------------------------------
(***************************************************************************)
(* Instances of BootLoader for TLC: drives that are missing, too small and *)
(* large enough, a kernel image with three sections, one that was built    *)
(* for another machine, one without code and one with a bad stub.          *)
(***************************************************************************)
EXTENDS BootLoader

Section(name, va, raw, size) == [name |-> name, va |-> va, raw |-> raw, size |-> size]

Kernel == [kind |-> "MZ", good |-> TRUE, ldr |-> "good", size |-> 16,
           sections |-> <<Section(".text", 8, 2, 2), Section(".ldr", 10, 4, 1), Section(".data", 11, 6, 5)>>]
PlainCode == [Kernel EXCEPT !.sections = <<Section("plain", 8, 2, 8)>>, !.ldr = "type"]

MCImages == {Kernel, PlainCode,
             [Kernel EXCEPT !.good = FALSE], [Kernel EXCEPT !.ldr = "bad"],
             [Kernel EXCEPT !.sections = <<Section(".data", 8, 2, 2)>>]}
=============================================================================
