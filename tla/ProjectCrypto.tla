---------------------------- MODULE ProjectCrypto ----------------------------
(***************************************************************************)
(* The keys of projects, symbolically: the identity of an account in its   *)
(* classical and its hybrid form (hybrid.ts), the wrapping of a project's  *)
(* DEK for an identity (x25519.ts), the project blob (wharfp.ts) and the   *)
(* making of a project (projectCreate.ts).  A key is named by what it was  *)
(* generated from; a ciphertext is a record that only the operator that    *)
(* opens it looks into.  Every failure to open is one value: the program   *)
(* cannot tell a wrong key from a changed byte either.                     *)
(***************************************************************************)
CONSTANTS NoSeed,      \* an identity from before the hybrid upgrade
          WrongSecret, \* the DEK does not open
          Corrupt,     \* the project blob does not open
          Empty        \* the payload of a project without hosts

\* An identity as the vault keeps it, and the public key that is published for it.
Identities(X, Seeds) == [x25519 : X, mlkemSeed : Seeds \cup {NoSeed}]

EncodeIdentity(id) == [x25519 |-> id.x25519, ek |-> id.mlkemSeed]

\* The hybrid upgrade keeps the X25519 half.
Upgrade(id, seed) == IF id.mlkemSeed # NoSeed THEN id ELSE [id EXCEPT !.mlkemSeed = seed]

-----------------------------------------------------------------------------
\* crypto_box_seal, and the ML-KEM layer around it, bound to its encapsulation.
BoxSeal(dek, x25519)       == [to |-> x25519, box |-> dek]
BoxSealOpen(sealed, priv)  == IF sealed.to = priv THEN sealed.box ELSE WrongSecret
WrapHybrid(inner, ek)      == [cipherText |-> ek, body |-> inner]
IsHybridWrapped(wrapped)   == "cipherText" \in DOMAIN wrapped

\* The version follows the recipient.
SealDek(dek, pub) ==
  LET sealed == BoxSeal(dek, pub.x25519)
  IN  IF pub.ek = NoSeed THEN sealed ELSE WrapHybrid(sealed, pub.ek)

\* Both versions open, whatever the version of the identity, as far as it has the keys.
OpenDek(wrapped, id) ==
  IF ~IsHybridWrapped(wrapped) THEN BoxSealOpen(wrapped, id.x25519)
  ELSE IF id.mlkemSeed = NoSeed \/ id.mlkemSeed # wrapped.cipherText THEN WrongSecret
  ELSE BoxSealOpen(wrapped.body, id.x25519)

-----------------------------------------------------------------------------
SealProject(dek, payload) == [dek |-> dek, payload |-> payload]
OpenProject(dek, blob)    == IF blob.dek = dek THEN blob.payload ELSE Corrupt

BuildCreateProject(dek, pub) ==
  [vault |-> SealProject(dek, Empty), wrappedDek |-> SealDek(dek, pub)]

\* What a member reads of a project: nothing without a copy that opens.
ReadProject(wrapped, blob, id) ==
  LET dek == OpenDek(wrapped, id)
  IN  IF dek = WrongSecret THEN Corrupt ELSE OpenProject(dek, blob)
=============================================================================
