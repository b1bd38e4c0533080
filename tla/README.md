# A TLA+ model of tpt-chassis

tpt-chassis is a Rust library for vehicle ECUs: bus abstractions (CAN, LIN,
SOME/IP), diagnostics (UDS over ISO-TP), an A/B over-the-air update engine, an
autonomy interface with a safety interlock, AUTOSAR-style signals, simulated
networks for tests, and back ends for Zephyr and Automotive Grade Linux (AGL).
This directory models its core logic in TLA+, checks it with TLC and proves the
most important results with TLAPS.

`PROJECT.json` maps every definition to the lines it models and lists the runs,
hazards, findings and theorems. Paths below are relative to the repository.

## 1. Inventory

| Component | State it keeps | Operations | What is hard | What makes it correct |
|---|---|---|---|---|
| OTA engine, `core/src/ota.rs` | none of its own: a journal and two slots behind the trait `OtaStorage` | `recover`, `stage`, `promote`, `commit`, `rollback` | power loss inside and between storage calls, failing writes, packages at the wrong moment, a journal that moves on while the old image goes on running | the vehicle always has an image to boot, runs only signed images, confirms only what has run, and a failed trial ends |
| Slot-state journal, same file | two bytes | `encode`, `decode`, `active_slot` | bytes nobody wrote | every engine step leaves a decodable journal |
| AGL storage, `agl/src/ota_storage.rs` | `slot<n>.img` for any slot byte, `state.bin` | `write_slot`, `write_state`, `read_state` | create truncates before write fills; a short file changes later calls; no slot byte is refused | whenever the journal is readable, recovery ends in a whole image |
| UDS server, `core/src/uds.rs` | session, security level, tester-present window, data | `handle` (six services), `tick` | a tester that vanishes, requests inside a window, refusals half way | the window is exact, refused requests do nothing, a stalled tester is disarmed |
| ISO-TP, `core/src/isotp.rs` | a reassembly buffer, its fill, total and sequence number | `encode_message`, `feed`, `flow_control_frame` | lost and repeated frames, wrap of the sequence number, lengths at their limits | no overrun; without loss only whole messages, and all of them |
| Interlock and telemetry ring, `core/src/safety.rs` | armed or not, a ring of the last N transitions | `arm`, `disarm`, gated `next_command`, `has_control`, `push`, `iter` | the emergency stop between two control cycles, the wrap of the ring | the first command after an arm rests on the newest sample; the audit trail is the truth |
| Lane keeping, `core/src/autonomy.rs` | last offset and timestamp | `ingest`, `next_command` | 32-bit values cut to 16, saturation, a product in u32 | steering in range and, for 16 bits, to the right side |
| OTA update package and demo signer, `core/src/ota.rs`, `cli/src/main.rs` | a file of header, payload and signature | `cmd_ota_stage`, `decode_header`, `hash` | damage on the way; tool and engine agreeing on every byte | what the tool wrote arrives or is refused; a damaged package never gets in |
| Zephyr storage, `zephyr/src/ota_storage.rs`, `zephyr/src/ffi.rs` | flash areas and a state partition, or arrays in RAM | as AGL, through C functions | every C call may fail; erased flash; a slot that does not exist | a candidate on offer is whole; the flash build is the engine of the first row |
| Diagnostics over CAN, `cli/src/main.rs` (`cmd_diag`), `sim/tests/uds_can.rs` | the exchange in progress | transmit, receive, handle, transmit, receive | the bus fails, the window closes or the tester stalls between two calls | an answer belongs to its request and stays true |
| Lane-keeping loop, `sim/tests/autonomy_can.rs`, `core/examples/autonomy_lane_keep.rs` | what is queued for the ECU and for the actuator | publish, ingest, command, dispatch, actuate | commands queued before a disarm; full queues that drop the newest frame | the kill-switch lag is bounded; the actuator catches up |
| CAN API and simulated network, `core/src/can.rs`, `sim/src/can.rs` | per node a bounded queue, a bus-off flag | attach, `transmit`, `receive`, `set_bus_off`; frame construction and validation, classical and FD | full queues, late nodes, bus-off between sends | one order for all, no loss below the capacity, what the constructors build is valid |
| SOME/IP network, `sim/src/someip.rs` | as CAN | as CAN, with `set_link_down` | as CAN | as CAN |
| AGL CAN loopback, `agl/src/can_socket.rs` | one bounded queue | `send`, `recv`, `can_send` | a full queue refuses | with a sender that retries, nothing is lost or reordered |
| LIN, `core/src/lin.rs`, `sim/src/lin.rs` | as CAN, with roles | as CAN; parity and checksum | carries, parity | single-bit errors are detected |
| SOME/IP codec, `core/src/someip.rs` | none | `encode`, `decode`, validation | reused buffers, wrong lengths, a sum in usize | decode gives what was sent or nothing |
| AUTOSAR, `core/src/autosar.rs` | a payload word, port words | `pack`, `unpack`, channel reads and writes | neighbours in one word | writes do not disturb neighbours |
| Flight-control bridge, `flight-control/src/lib.rs` | one encode buffer | `publish` | failing transport, retries | the stream is faithful and in order |

Interactions. The engine calls its storage back end; the back end decides what
is atomic and which slot bytes exist. The boot path and the running image call
the engine and make the jump it proposes, or do not. The signing tool and the engine share the package format. A
supervisor arms and disarms the interlock while the ECU's loop calls the stack
through it; samples and commands travel over the network, as do the frames of a
diagnostic exchange. Longer messages are cut by ISO-TP. The bridge reads the
interlock and hands frames to a transport. There are no threads in the library:
what interleaves are callers (main loop, supervisor, tester, bus, power supply).

## 2. Modules

| Module | Models | State and actions |
|---|---|---|
| `SlotState` | the enum `SlotState` and the successor each engine call computes | constant operators, named as in the code |
| `UpdateContract` | nothing in the code: what an A/B updater promises, without slots or journal | one confirmed image, a trial that lasts one boot at most and is confirmed only by the image on trial itself |
| `OtaEngine` | `OtaEngine` over a back end that keeps the contract of `OtaStorage` | `journal`, `slots`, `running`, and `pc` for the storage call `stage` is at. `recover`, `promote`, `commit` and `rollback` read once and write once, so they are one step each, and change nothing but the journal; the jump to the active slot is the caller's step `handOver`, which may come after any call or not at all; `stage` is validation, slot write, journal write. Each write may fail, and `crash` may come anywhere |
| `AglOtaStorage` | the AGL files under the engine's calls | `stateFile`, `slotFile`; a write is `createFile`, then `writeAll`; `ioError` and `crash` in between leave prefixes |
| `ZephyrOtaStorage` | the Zephyr back end under the engine's calls, both builds | `build` says which; `state` is two bytes or a `SlotState`; a flash write is `flashOpen`, then `flashWrite`, each with its failure. `INSTANCE OtaEngine` is the refinement |
| `OtaCaller` | nothing in the code: the constants the two back ends share | the images and slot bytes of accepted packages |
| `UpdatePackage` | `tpt-cli ota stage`, `decode_header`, the verdict of `stage` | `file` is the package byte by byte; `damageFile` changes one byte; the signature scheme is a parameter, as the trait `SignatureScheme` is in the code |
| `DemoSigner` | `DemoSigner`, the scheme the tool has | constant operators; a 32-bit word is a pair of 16-bit halves |
| `Option` | Rust's `None` | one constant, shared by the modules that meet in `MCWireFormats` |
| `UdsServer` | `UdsServer` | one action per service inside `handle`, with the length of the response buffer as an input; `tick`; `stall` is the tester |
| `IsoTp` | `encode_message` and `IsoTpLink` | a sender, a bus that loses and repeats frames, a link whose capacity `N` is chosen when it is built; one operator per branch of `feed` |
| `TelemetryRing`, `Interlock` | `TelemetryRing`, `Interlock` and the gated lane-keeping stack | ring as in the code (`buf`, `head`, `len`); `history` is an auxiliary record of all transitions |
| `Diagnostics` | the exchange of `cmd_diag` | extends `UdsServer`, puts tester and ECU on a `SimNetwork`; `at` is the call the exchange is at; `told` is what positive answers told the tester |
| `LaneKeeping` | sensor, ECU and actuator of the autonomy loop | extends `Interlock`, on a `SimNetwork`; `at` is the call the ECU's loop is at; `late` counts commands acted on after a disarm |
| `SimNetwork` | `SimCanNetwork` and `VehicleBus::transmit` | queues, attachments, bus-off; used by the four modules that need a network |
| `CanFrames` | identifiers, frames and their validation, classical and FD | constant operators |
| `VehicleNetwork` | `CanBus` and `CanFdBus` over the network | `log` is the order of frames on the bus, `received` what each node took |
| `LinCluster`, `SomeIpNetwork` | `LinFrame`, `LinId` over `SimLinCluster`; `SimSomeIpNetwork` | extend `VehicleNetwork`: they have the same queue code |
| `AglCan` | `AglCanTransceiver` | one queue, a sender that retries |
| `SomeIp`, `Autosar`, `FlightControl` | the codecs and their callers | bytes are bytes here; `Autosar` includes the eight-bit cut of `tpt-cli signals` |
| `MC*` | instances for TLC | |
| `MCStorage` | both storage back ends in one instance | it extends both, so a property is the one its theorem states; each is explored with the other at rest |
| `MCWireFormats` | codecs, packages, networks and loopback in one instance | it extends all of them; they share no variable (CAN, LIN and SOME/IP are three networks of one shape), so each is explored with the others at rest |
| `*_proofs` | theorems about the modules they extend | `OtaStorage_proofs` is about both storage back ends, `LaneKeeping_proofs` also about `Interlock` and `TelemetryRing`, `Diagnostics_proofs` about `UdsServer`, `VehicleNetwork_proofs` about `LinCluster`, `SomeIpNetwork` and `AglCan`, `WireFormats_proofs` about `SomeIp`, `Autosar`, `FlightControl`, `UpdatePackage` and the bytes of `LinCluster`. `SlotState_proofs` serves the engine's and the storage proofs |

Abstractions. Images, identifiers and messages are model values. A signature is
the message it was made over, so `verify` is membership in what was signed:
this is what the engine needs of a scheme, and cryptography is left out. In
`UpdatePackage`, where data and signature are bytes, a scheme is any pair of
operators that keeps `SignerAssumption`. Byte
*i* of an ISO-TP message *m* is `<<m, i>>`, so that any mixture, gap or padding
shows. A CAN frame is its position in the bus order, or the request, answer, sample or command it
carries. A Rust panic is a value
(`Panic`) or an outcome of a call. Definitions whose comment says *Mutant* are
plausible wrong versions of the definition that follows; no specification uses
them, they are there to show that a property notices.

## 3. Runs

| Run | Distinct states | Shows |
|---|---|---|
| `ota_engine` | 482 | `Recoverable`, `NeverBootsTorn`, `ImagesAreSigned`, `ConfirmedIsHealthy`, `KeepsRunningHealthy` and the refinement of `UpdateContract`, for a caller that stages only while no update is in flight and commits only as the image on trial; it may call `recover` again at any time, and jump after a call or not |
| `ota_stage_in_trial` | counterexample | a caller that stages whenever the other slot is inactive loses its fallback |
| `ota_commit_untried` | counterexample | a caller that commits because it is healthy itself, without having jumped, confirms an image that never ran |
| `recover_twice` | counterexample | a second `recover` at one startup moves the journal again |
| `storage` | 9516 | AGL: `ReadableIsRecoverable`, `BootsWholeImage`, `TornSlotStaysTorn` at every point inside the file writes. Zephyr: `CandidateIsWhole` in both builds, `ImplementsEngine` for the flash build |
| `agl_crash` | counterexample | the AGL journal itself is not written atomically |
| `diagnostics` | 173488 | `WindowIsExact`, `RefusedHasNoEffect`, `HeldTesterIsDisarmed`, `OnlyLongReadsPanic`, and over the bus `AnswersMatch` and `ToldIsTrue` |
| `uds_stalled` | counterexample | a tester that never sent TesterPresent is never disarmed |
| `isotp` | 146228 | `NeverOverruns` under any loss and for a link smaller than a single frame, `WholeUntilLoss`, `UnpaddedDelivered` |
| `isotp_padding` | counterexample | a padded last frame is refused |
| `lane_keeping` | 468138 | `KillSwitchLagIsBounded`, `ActsInOrder`, `ControlIsCurrent`, `ActuatorCatchesUp` over the bus; `AuditIsLastN`, `SteersInRange` of the interlock |
| `wire_formats` | 582250 | `BusOrder`, `NoLossBelowCapacity`, `BuiltIsValid`, `LoopbackLosesNothing`, `PackageArrives`, `DamagedIsRefused`, and the round trips and error detection of SOME/IP, AUTOSAR, telemetry and LIN |

Bounds, and why they are enough.

* `ota_engine`: the state is finite without a bound. Four images: the factory
  one, a good one signed for both slots, one that fails its health test and is
  signed for slot 1 only, one too large for a slot; a package with slot byte 2;
  forged signatures; a payload length that disagrees with the payload. Every
  refusal of `stage` is reached, and updates go back and forth between the
  slots for ever. The back end of this run refuses slot 2, as the RAM and the
  Zephyr back ends do (`BackendSlots`).
* `storage`: finite too; two images, slot bytes 0 to 2. A Zephyr device starts
  with a written or with an erased state partition. AGL accepts slot 2, see
  section 5.
* `diagnostics`: a window of three ticks, so that requests, failures and ticks
  fall before, inside and after it; one data identifier of each kind (one that
  just fits an eight-byte answer, a reserved one that does not, one longer than
  `UDS_MAX_PAYLOAD`, an unreadable one), two values. Over the bus every response
  buffer has its eight bytes; in direct calls it is too short for a negative
  answer, just long enough for one, or long enough for all.
* `isotp`: frames of four bytes and a two-bit sequence number instead of eight
  bytes and four bits, so that a message of five consecutive frames wraps. The
  messages include one that fills its frames, one that does not, an empty one,
  one for each reason `encode_message` refuses, one longer than the link's
  buffer and one that fills it to its last byte. The link holds 17 bytes, or two,
  which is less than a single frame carries. At most seven frames are lost and
  two repeated: enough to lose the whole head of a message and meet the tail of
  another.
* `lane_keeping`: a ring of three and up to five transitions, so that it wraps;
  queues of two and three samples, so that sensor frames and commands fill the
  actuator's queue and the ECU's. The bound of `KillSwitchLagIsBounded` is met:
  with one less, TLC finds a counterexample. In direct calls, offsets at both
  ends of 16 bits and beyond. The overflow of the throttle's product needs
  numbers TLC does not have, so `U32Size` is 65536 here and one of the speeds
  overflows it, in a build that checks (the proofs have no such bound).
* `wire_formats`: all 64 LIN identifiers; SOME/IP payloads from none to the
  maximum, with every header field that `decode` reads damaged, both bytes of the
  lower half of the length together included; usize is 16 bits wide, the smallest
  Rust has, and additions wrap (TLC's integers end below the 32 bits of an ECU;
  the proof is for every width and for both kinds of build); a six-bit word
  filled to its last bit; signed and unsigned fields at their ends; packages
  with an empty, a short and a too long payload, every byte of them damaged in
  its lowest and its highest bit. The networks have three interchangeable nodes
  (symmetry is sound: nodes are only compared for equality and no liveness is
  checked), queues of two and up to five frames, so that queues fill while
  others are being read; identifiers and lengths at both sides of each limit.

Deadlock is not checked where a run really ends: in `isotp` when all messages
are sent, in `diagnostics` and `lane_keeping` after a panic, and in
`isotp_padding` and `uds_stalled`.

### Fairness

* `OtaEngine!FairSpec`: weak fairness of `boot` (the boot path runs on every
  start, and flash does not fail for ever), strong fairness of `bootJump` (the
  boot path's jump is a few instructions after `recover`; power that is cut there
  at every single start would keep any system down, and without strong fairness
  it could be) and weak fairness of `failedTrialEnds` (an image that fails its
  health test is rolled back or reset by the watchdog that the trial phase exists
  for). Nothing is assumed of `stage`, of `commit`, or of a jump by anyone but the
  boot path.
* `UdsServer!FairSpec` and `MCDiagnostics`: weak fairness of `tick`, which the doc
  asks the platform to call periodically. Nothing is assumed of tester or bus.
* `LaneKeeping!loopSpec`: weak fairness of the ECU's loop and of the actuator's:
  both are loops their platform keeps running. Nothing is assumed of the sensor
  and of the supervisor.
* `IsoTp!FairSpec`: weak fairness of `send` and `receive`: the sender has a loop
  and the bus delivers what it carries, unless it loses it (the property is
  conditional on no loss).

## 4. Theorems

All proofs are checked by TLAPS to the last leaf, for every value of the
constants. The assumptions on constants are named and stand in the modules that
declare them; TLC evaluates them on the instances it checks. Four theorems of
the engine have a hypothesis beside them, `SettledUse`: the caller stages only
while no update is in flight, and commits only as the image on trial, and the
back end refuses slots that do not exist.

Hardly any of the properties is inductive as it stands. What each needs:

**Update engine** (`OtaEngine_proofs`, `SlotState_proofs`)

* `TypeCorrect`, `SignedOnly` hold for **every** caller and every back end.
  Between the signature check and the slot write the package only exists in
  flight: `SignedInv` adds `InFlightSigned` (a package past the check was signed
  for the very slot and length it carries), and `TypeInv` that a slot byte which
  reached the journal write is one the back end accepted.
* `NeverBricked`, `BootsWhole`, `ConfirmedHealthy` assume `SettledUse`.
  `SettledInv` adds to `Recoverable` that `stage` is writing the slot recovery
  does not end in (`StagesOtherSlot`), that the journal points to a candidate
  only when its slot is whole and a trial falls back to the other slot
  (`RecordsWhole`), and that what runs is whole (`RunsWhole`): which image runs
  is the caller's affair, since nothing forces its jump. The runs
  `ota_stage_in_trial` and `ota_commit_untried` show that neither half of the
  caller's discipline can be dropped, section 5 why the one on the back end
  cannot.
* `Refinement`: under the same hypothesis `OtaEngine` implements
  `UpdateContract`. The mapping takes the slot at the end of recovery
  (`Lifeline`) for the confirmed image and the other for the trial; the slot
  write of `stage` is a stutter, its journal write is `Offer`; `recover` on boot
  is `Boot`, later `Try` or `Abandon`, and the jump is `Enter`.
* `JournalRoundTrip`: `decode` undoes `encode`. Both storage proofs rest on it.

**Storage back ends** (`OtaStorage_proofs`)

* `RecoverableOnFiles`, `BootsWhole`: `AglInv` says that a journal on file names
  whole slot files only (`Backed`), and also that of the journal still in
  flight; that the calls left of a `stage` are a slot write and the journal
  write for that very slot, while the journal on file says `Active` for the
  other (`CallInv`). A crash drops the calls, an open drops a file's contents,
  and neither touches what the journal names.
* `TornForEver` is of the form `P => []P'` at any time: the short file is an
  invariant of every behaviour that has reached it.
* `CandidateWhole`: in the RAM build the journal may name a slot that holds no
  image, so `CandidateInv` speaks of the candidate alone, and `FlashInv` of every
  slot the journal names in the flash build.
* `FlashIsAnEngine`: `ZephyrOtaStorage` in its flash build implements
  `OtaEngine`. Opening the area and writing it are the two halves of the
  engine's slot write; a C error return is a failed storage call; an erased
  partition is an engine that never starts. With it, the theorems about
  `OtaEngine` hold of the flash build.
* `FlashNeverBricked` states the two that matter most, `Recoverable` and
  `NeverBootsTorn`, of the flash device itself; `FlashInv` implies them.

**Diagnostics** (`Diagnostics_proofs`)

* `WindowExact`, `WindowExactOnBus`: `WindowInv` adds that an open window has at
  least one tick left, which is what makes the subtraction in `tick` safe.
* `RefusedUnchanged` is an action property and needs no invariant: it goes
  through the branches of each service.
* `AnswersAreMatched`: `ExchangeInv` says where the one frame of an exchange is
  at each call (in one queue, in the ECU, or nowhere), so that when the tester
  receives, the only answer there is the answer to its request.
* `ToldStaysTrue`: between the ECU's handling of a write and the tester's
  reading of its answer the store is ahead of what the tester knows, by exactly
  the value written (`ToldInv`).
* `PanicsAreLongReads`: with eight bytes, the one answer that can be longer is a
  read of an identifier of six or seven.

**ISO-TP** (`IsoTp_proofs`)

* `BufferSafe`: frames on the bus are always the rest of a message of
  `encode_message` (`Carries`), so that data fields have the sizes that the
  bounds check in `feed` relies on, through any loss. The capacity is any
  number: `feed` panics only if it is below that of a single frame.
* `WholeMessages`: until a frame is lost, the link has taken the message on the
  bus up to the frame at its head or to the one before (`Taken`: the frame at
  the head may have been delivered once already), with the sequence number to
  match; or no reception is open; or one is open that no frame can complete,
  because its padded last frame was refused (`Stuck`). The last case is why a
  message the link refuses does not end up in the leftovers of the one before.
  That neighbours have different sequence numbers, also at the wrap, needs
  `SnMod > 1` only.

**Interlock and control loop** (`LaneKeeping_proofs`)

* `AuditExact`, `AuditExactInLoop`: `RingHolds` relates the slots before and
  from `head` to the history, before and after the wrap.
* `SteeringSafe`: the cut to 16 bits and the saturating multiplication keep the
  sign of an offset of 16 bits, by a case split over the saturation.
* `KillSwitchBounded`: `LagInv` bounds what acted since the disarm plus what is
  on its way, and says that nothing counts as late while armed.
* `ActuatorInOrder`, `ControlCurrent`: `OrderInv` orders all timestamps from the
  actuator back to the sensor, queues included. What `has_control` promises is
  about one state: a stop before `next_command` takes it back, and a throttle
  product that overflows in a build that checks ends the loop.

**Networks** (`VehicleNetwork_proofs`)

* `BusOrderKept`, `LossNeedsFullQueue` for CAN, LIN and the SOME/IP segment:
  `NetInv` adds the types to `BusOrder` and `NoLossBelowCapacity`. A full queue
  holds as many different frames as places because it is increasing, which is
  where the count in `NoLossBelowCapacity` comes from.
* `ConstructorsAgree`: every identifier and frame the constructors return passes
  the validation written apart from them. It holds of every step from every
  state, so it needs no invariant.
* `LoopbackExact`: `LoopbackLosesNothing` with its types is inductive.

**Wire formats** (`WireFormats_proofs`)

The formats are defined with powers of two, checksums and folds over sequences,
so their facts need induction and the existence of functions defined by
recursion. The library's induction theorems take an operator as a parameter,
which the provers cannot instantiate; the module therefore starts with both
principles stated over sets (`NatInduct`, `NatRecursion`), proved from the well-foundedness of the natural numbers. On them rest
lemmas on powers of two, division and bit fields, which the rest shares.

* `SignalsIndependent`: `SignalInv` is the property with the bound on the word,
  which a pack at the last bits needs. A word is what is above a field, the
  field and what is below it; packing changes the middle part only, and a
  disjoint field lies in one of the other two.
* `ChannelsIndependent`: `ChannelInv`, by the same argument for fields of one bit.
* `PidFlipDetected`: the eight bits of every protected identifier satisfy the two
  parity equations, and inverting any one of them breaks one of the two.
* `ChecksumsVerify`: what the carry-around loop keeps is the sum modulo 255, by
  induction over the bytes; one inverted bit changes the sum by a power of two
  below 256, which 255 does not divide. Needs that a frame on the wire is one
  the constructors built (`FrameIsBuilt`).
* `StreamFaithful`: little-endian encoding of 16 and 32 bits and two's
  complement are undone by reading; `BeamInv` adds that a pending snapshot is
  later than every payload accepted, which is why a retry after a failure never
  sends one twice. That half is about the main loop around the bridge, which
  keeps a snapshot until `publish` returns Ok.
* `PackageIsStaged`, `DamagedIsNotStaged`: `PkgInv` says which call of the tool the
  file and the verdict belong to. `decode_header` undoes `encode_header`, also
  for lengths of 32 bits. A changed byte is in one of the three parts: in the
  header it changes magic, version, slot or length, and only a changed slot gets
  as far as the signature, which does not cover the new header; in the payload or
  the signature `verify` refuses it. The scheme is any that keeps
  `SignerAssumption`; TLC evaluates that assumption for the demo signer and the
  packages of the run, for no hash of 32 bits keeps it of all data there is.
* `MessageDecoded`, `DamageStaysInside`: `SipInv` says that the undamaged buffer
  is the encoding of the message last sent and some tail, whatever earlier
  messages left there, and that what was decoded was decoded from its first
  `arrived` bytes. That decode returns the payload of the declared length, and
  that it panics only for lengths whose sum with the header usize cannot hold,
  needs no invariant about the header: it holds of every sequence of bytes. A sum
  that wraps is below the header's own length (`WrapsOnce`).

Only model-checked, and why: `KeepsRunningHealthy`, `HeldTesterIsDisarmed`,
`UnpaddedDelivered` and `ActuatorCatchesUp` are liveness under fairness, which is
outside the prover. Every invariant and every action property of a passing run
has a theorem. The demo signer's hash itself is computed by TLC; its bitwise
operators are outside the prover, which is why `DemoSigner` is a module of its
own below the parametric `UpdatePackage`.

## 5. Where code and documentation disagree

Six disagreements have a run and are listed with quotations under `findings`:
staging during a trial, the commit of an image that never ran, the second
`recover`, the non-atomic `state.bin`, the stalled tester, and the padded last
frame.

The commit is worth a word. The repository's example and unit test
(`core/examples/ota_update.rs:112-117`, `core/src/ota.rs:610-624`) call `stage`,
`promote` and `commit` in one process. That is a use `UpdateContract` excludes
(`Confirm` asks for the trial image to be executing) and no call of the engine
refuses: what is confirmed there has not run. The theorems therefore state the
caller's part as a hypothesis, `MayCommit`.

Others were met while modelling; the models follow the code:

* `stage` is said to write the inactive slot (`core/src/ota.rs:416`), but a
  signed package for the active slot is written there.
* Nor does `stage` check the slot byte itself (`core/src/ota.rs:445`);
  `decode_header` does, for packages that come as bytes. The AGL back end accepts
  any (`agl/src/ota_storage.rs:54`, 64-79): a package for slot 2 that is built as
  a struct leaves the journal bytes `01 02`, which no later read decodes, and
  `recover` fails at every start from then on. `ReadableIsRecoverable` says
  nothing of that state, and the promise a crash breaks in `agl_crash` is broken
  here by a complete call. The engine's theorems with `SettledUse` do not apply to
  AGL for this reason; those of `OtaStorage_proofs` do.
* A link built with fewer than seven bytes panics on a single frame that does not
  fit (`core/src/isotp.rs:116`); longer messages are refused with `Overflow`.
* Once frames are lost, ISO-TP reassembly promises nothing about content: a
  reception has no timeout, a refused first frame leaves the one before open, and
  any consecutive frame with a fitting number continues it, so that a mixture of
  two messages can be handed up. The documentation claims nothing about loss;
  `WholeUntilLoss` says how far the guarantee goes.
* `decode` of SOME/IP adds 16 to the declared payload in usize
  (`core/src/someip.rs:318`), before it looks at the buffer. On a 32-bit ECU the
  eight largest declared lengths overflow: a panic with overflow checks, and
  without them a slice that ends before it begins, which panics as well
  (`DamageIsContained`).
* The throttle multiplies the missing speed by 100 in u32
  (`core/src/autonomy.rs:223`): a cruise speed above 42949672 cm/s overflows at
  standstill, into a panic or a wrong throttle. No property covers the throttle.
* `handle` is said to return `None` for a short buffer (`core/src/uds.rs:238`),
  but positive answers index it unchecked. `UDS_MAX_PAYLOAD` lets an answer of up
  to ten bytes through, and every caller provides eight: reading an identifier
  of six or seven bytes ends the server (`OnlyLongReadsPanic`).
* `tpt-cli signals` says that a bad database fails the build (`cli/src/main.rs:249`),
  but cuts entries to eight bits first, so that bit 256 becomes bit 0.
* `next_command` keeps callers from applying stale output while disarmed
  (`core/src/safety.rs:123`), but nothing recalls a command already handed out:
  `KillSwitchLagIsBounded` states how many still act.
* An empty message is encoded by `encode_message` and refused by `feed`.
* Steering cuts a 32-bit offset to 16 bits (`core/src/autonomy.rs:220`), so
  "positive offset (right) -> steer right" holds for 16-bit offsets only, which
  is how `SteersInRange` states it.
* A full receive queue drops a frame and the sender gets `Ok`
  (`sim/src/can.rs:89`), against SG-BUS of `docs/safety-case.md:30`;
  `NoLossBelowCapacity` states what does hold.
* A simulated LIN slave may transmit unasked (`sim/src/lin.rs:103`,
  `core/src/lin.rs:150`).
* The telemetry header is six bytes, not eight (`flight-control/src/lib.rs:118`).

## 6. Not modelled

The arithmetic of Ed25519 (an external crate), `tpt-cli new` (template copying)
and `ota sign` (prints a signature), the code templates, `read_slot` (the engine
never calls it), the real SocketCAN socket (the code never opens one), and
display, debug and accessor code. Files are written through in program order: a
page cache that reorders the slot and the journal is the file system's doing
and is left out. `tpt_state_write` of the Zephyr binding is taken to be atomic,
as the trait asks.

## 7. Plan

Done: the update engine with its contract and proofs, both storage back ends,
packages, UDS alone and over the bus, ISO-TP, the interlock alone and in its
loop, CAN, LIN and SOME/IP networks, the loopback, the wire formats.

Proved: everything in section 4, that is every invariant, action property and
refinement that a passing run checks.

What would come next is models: ISO-TP under `Diagnostics`, so that the frames it
loses are the ones a full queue drops; `FlightControl` reading the real
`Interlock`.
