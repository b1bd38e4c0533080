------------------------------ MODULE DemoSigner ------------------------------
(***************************************************************************)
(* DemoSigner of core/src/ota.rs, the signature scheme of tests and of     *)
(* tpt-cli, with its 32-bit arithmetic: a word is a pair of 16-bit halves. *)
(***************************************************************************)
EXTENDS UpdatePackage, Bitwise

xor(w, v) == Word(w.hi ^^ v.hi, w.lo ^^ v.lo)

\* u32::wrapping_mul, for factors whose partial products fit 31 bits.
wrapping_mul(w, v) ==
    LET low == w.lo * v.lo
    IN  Word((low \div 65536 + w.hi * v.lo + w.lo * v.hi) % 65536, low % 65536)

rotate_left8(w) ==
    Word((w.hi % 256) * 256 + w.lo \div 256, (w.lo % 256) * 256 + w.hi \div 256)

\* One step of the keyed FNV-1a loop of DemoSigner::hash.
fnv(h, byte) == wrapping_mul(xor(h, Word(0, byte)), Word(256, 403))

\* The step that spreads the hash over the signature.
spread(w) ==
    xor(rotate_left8(w),
        wrapping_mul(Word(0, w.hi \div 256), Word(40503, 31161)))

hash(key, data) ==
    LET h == FoldLeft(fnv, xor(Word(33052, 40389), key), data)
        states == FoldLeft(LAMBDA ws, i : Append(ws, spread(Last(ws))), <<h>>,
                           [i \in 1 .. OTA_SIGNATURE_LEN - 1 |-> i])
    IN  [i \in 1 .. OTA_SIGNATURE_LEN |-> states[i].lo % 256]

\* SignatureScheme::verify; sign is hash itself.
demoVerify(key, data, signature) == hash(key, data) = signature
=============================================================================
