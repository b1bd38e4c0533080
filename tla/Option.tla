-------------------------------- MODULE Option --------------------------------
(* What the optional values of the code are when they are absent.          *)
CONSTANT None             \* Rust's None
=============================================================================
