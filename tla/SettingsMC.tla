----------------------------- MODULE SettingsMC -----------------------------
(***************************************************************************)
(* Instances of Startup, with the settings it serves: Evolution's base     *)
(* URL, and the Chatwoot token, a secret which two clients use.  A form    *)
(* field may hold x with a space or a slash at its end, as the token of    *)
(* the environment does, and nothing but spaces.  Of the five migrations   *)
(* the third begins with ALTER TABLE; it and the second write content.     *)
(***************************************************************************)
EXTENDS Startup, TLC

CONSTANTS a1, a2, base, token, x, xSlash, y, spaces

AdminsOne == {a1}
AdminsTwo == {a1, a2}
FieldsMC == {base, token}
SecretsMC == {token}
RawMC == {Blank, x, xSlash, y, spaces}
TrimMC == (Blank :> Blank) @@ (x :> x) @@ (xSlash :> x) @@ (y :> y) @@ (spaces :> Blank)
EnvMC == (base :> x) @@ (token :> xSlash)
UsesMC == [evolution |-> {base}, chatwoot |-> {token}, whatsapp |-> {base, token}]

SizeMC == <<2, 2, 3, 2, 1>>
OneShotMC == {<<3, 1>>}
SeedsMC == {2, 3}
=============================================================================
