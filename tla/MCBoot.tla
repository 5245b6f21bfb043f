------------------------------- MODULE MCBoot -------------------------------
EXTENDS Boot

(* Twenty-four frames: the types of the first, of one in the middle and of *)
(* the last two vary, the loader is in frame 3, the rest is conventional.  *)
Kinds == {"conv", "boot", "acpi", "run", "hole"}
MCLayouts == {[i \in 1 .. 24 |->
    CASE i = 1 -> t[1] [] i = 4 -> "boot" [] i = 12 -> t[2] [] i >= 23 -> t[i - 20] [] OTHER -> "conv"]
  : t \in [1 .. 4 -> Kinds]}

MCSpans == <<1000, 100, 24>>
=============================================================================
