------------------------------ MODULE OtaCaller ------------------------------
(* What the update engine is called with over either storage back end.     *)
EXTENDS SlotState

CONSTANTS Images, Factory, None,
          PackageSlots  \* slot bytes of accepted packages
=============================================================================
