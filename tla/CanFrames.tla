------------------------------ MODULE CanFrames ------------------------------
(***************************************************************************)
(* Identifiers and frames of core/src/can.rs, classical CAN and CAN FD:    *)
(* what the constructors build, and what transmit validates again.  A      *)
(* payload is its length.                                                  *)
(***************************************************************************)
EXTENDS Naturals, Option

CAN_MAX_DLC   == 8
CANFD_MAX_DLC == 64
STANDARD_MAX  == 2 ^ 11 - 1
EXTENDED_MAX  == 2 ^ 29 - 1

\* Mutant: 11 bits are taken to hold one identifier more.
standardOffByOne(id) ==
    IF id <= STANDARD_MAX + 1 THEN [raw |-> id, extended |-> FALSE] ELSE None

\* CanId::standard and CanId::extended
standard(id) ==
    IF id <= STANDARD_MAX THEN [raw |-> id, extended |-> FALSE] ELSE None

extended(id) ==
    IF id <= EXTENDED_MAX THEN [raw |-> id, extended |-> TRUE] ELSE None

\* CanFrame::new and CanFdFrame::new
newFrame(id, len) == IF len > CAN_MAX_DLC THEN None ELSE [id |-> id, len |-> len]

newFdFrame(id, len) == IF len > CANFD_MAX_DLC THEN None ELSE [id |-> id, len |-> len]

\* validate_frame and validate_fd_frame
max(id) == IF id.extended THEN EXTENDED_MAX ELSE STANDARD_MAX

validate_frame(f)    == f.len <= CAN_MAX_DLC /\ f.id.raw <= max(f.id)

validate_fd_frame(f) == f.len <= CANFD_MAX_DLC /\ f.id.raw <= max(f.id)
=============================================================================
