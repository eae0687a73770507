----------------------------- MODULE MCWorkbench -----------------------------
(* One manifest, created by the page or by somebody else.                    *)
EXTENDS Workbench, TLC
=============================================================================
