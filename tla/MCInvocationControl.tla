------------------------ MODULE MCInvocationControl -------------------------
(* Small instances of InvocationControl.                                    *)
EXTENDS InvocationControl

CONSTANTS i1, i2, i3, a1, a2
=============================================================================
