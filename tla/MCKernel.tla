------------------------------ MODULE MCKernel ------------------------------
(* Constants for model checking Kernel.                                    *)
EXTENDS KernelProperties

\* Handle 1 is the keyboard interrupt, as in _start; handle 0 is empty.
MCBootCSpace ==
  InsertAt(<<>>, 1, [type |-> "Interrupt", obj |-> 1, rights |-> {}])

\* Children that get everything; and any choice of SYS_SPAWN's argument.
MCNoCaps == <<>>

MCAllCaps == {AllCaps}
MCAnyHandle == {AllCaps, 0, 1}

\* A build in which the five blocking calls have frames of distinct sizes.
MCStackDepth ==
  [s \in Site |-> CASE s = "sys_wait" -> 40 [] s = "yield_now" -> 41
                    [] s = "sys_send" -> 42 [] s = "sys_recv" -> 43
                    [] s = "sys_wait_irq" -> 44]
=============================================================================
