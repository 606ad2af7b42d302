----------------------------- MODULE SealedDoc -----------------------------
(***************************************************************************)
(* The sealed document and the unlocked session: crypto.rs, and what       *)
(* vault.rs puts into the header and takes out of it again.                *)
(*                                                                         *)
(* Argon2id and XChaCha20-Poly1305 are taken as perfect: a key is its      *)
(* inputs, a ciphertext says what it was sealed with, and opens with that  *)
(* key over that header and with nothing else.  The nonce, fresh for every *)
(* write and only ever read back, is left out, and so are the magic number *)
(* and the version, which every document has.                              *)
(***************************************************************************)
EXTENDS Naturals

\* The KDF's cost: memory in KiB, passes, lanes.
Cost(m, t, p) == [mCost |-> m, tCost |-> t, pCost |-> p]
Valid(params) == params.mCost >= 8 /\ params.tCost >= 1 /\ params.pCost >= 1

DeriveKey(pw, salt, params) == [pw |-> pw, salt |-> salt, params |-> params]

\* The associated data: the header without the nonce.
Aad(params, salt) == [params |-> params, salt |-> salt]

Seal(key, aad, body) == [key |-> key, aad |-> aad, body |-> body]
Opens(key, aad, text) == text.key = key /\ text.aad = aad

\* `Session`, as create, unlock and rotate make it.
Session(body, pw, salt, params) ==
    [body |-> body, key |-> DeriveKey(pw, salt, params), salt |-> salt,
     params |-> params]

\* The bytes `write` gives to the file.
Document(s) ==
    [params |-> s.params, salt |-> s.salt,
     text |-> Seal(s.key, Aad(s.params, s.salt), s.body)]

\* Whether `unlock` succeeds: salt and cost come from the header.
Unlockable(doc, pw) ==
    /\ Valid(doc.params)
    /\ Opens(DeriveKey(pw, doc.salt, doc.params), Aad(doc.params, doc.salt),
             doc.text)

\* What it returns.
Unlocked(doc, pw) == Session(doc.text.body, pw, doc.salt, doc.params)

-----------------------------------------------------------------------------
\* A session that was made by create, unlock or rotate for pw.
Coherent(s, pw) ==
    /\ s = Session(s.body, pw, s.salt, s.params)
    /\ Valid(s.params)
=============================================================================
