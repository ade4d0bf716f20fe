-------------------------------- MODULE X3DH --------------------------------
(***************************************************************************)
(* The first-contact handshake of comm-core.  A key pair is one value: its *)
(* public half where the value is sent, its secret half where the value's  *)
(* owner uses it.  An identity's signing and exchange keys are generated   *)
(* together and share a name.  Derivation and sealing are free of          *)
(* collisions: two secrets are equal when their inputs are.                *)
(***************************************************************************)
EXTENDS Sequences

CONSTANT None          \* no one-time prekey

\* x25519: either side derives the same value.
DH(a, b) == {a, b}

\* The inputs of derive_shared_secret in order; dh4 is empty or one value.
SharedSecret(dh1, dh2, dh3, dh4) == <<dh1, dh2, dh3>> \o dh4

(* PreKeyBundle::verify: the signed prekey carries the identity's          *)
(* signature.                                                              *)
Verify(bundle) == bundle.signer = bundle.identity

(* initiate_x3dh with a bundle that verifies: what is sent, and the secret *)
(* that seals the message.                                                 *)
Initiate(sender, ephemeral, bundle) ==
  [sender |-> sender, ephemeral |-> ephemeral,
   signed |-> bundle.signed, one |-> bundle.one,
   secret |-> SharedSecret(DH(sender, bundle.signed), DH(ephemeral, bundle.identity),
                DH(ephemeral, bundle.signed),
                IF bundle.one = None THEN <<>> ELSE <<DH(ephemeral, bundle.one)>>)]

(* Mutant: the ephemeral key meets the identity where the signed prekey     *)
(* belongs.                                                                 *)
RespondSwapped(identity, signed, one, message) ==
  SharedSecret(DH(identity, message.sender), DH(identity, message.ephemeral),
    DH(signed, message.ephemeral),
    IF message.one = None THEN <<>> ELSE <<DH(one, message.ephemeral)>>)

(* respond_x3dh, past its checks.                                          *)
Respond(identity, signed, one, message) ==
  SharedSecret(DH(signed, message.sender), DH(identity, message.ephemeral),
    DH(signed, message.ephemeral),
    IF message.one = None THEN <<>> ELSE <<DH(one, message.ephemeral)>>)

(* open_initial_message: the keys handed to it must be the ones the        *)
(* message names, a one-time prekey only if it names one, and the secret   *)
(* must open what the sender's secret sealed.                              *)
Opens(identity, signed, one, message) ==
  /\ message.signed = signed
  /\ message.one # None => one = message.one
  /\ Respond(identity, signed, one, message) = message.secret
=============================================================================
