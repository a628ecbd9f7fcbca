--------------------------- MODULE Authentication ---------------------------
(***************************************************************************)
(* Verification of a signed request: internal/auth/auth.go.  The checks are  *)
(* operators of the request and of the time each of them reads from the       *)
(* clock; the front end takes them one after the other, and time may pass in *)
(* between.                                                                  *)
(*                                                                           *)
(* A signature is the record of what was hashed into it: the secret, the      *)
(* scope and the canonical request.  Equal signatures mean equal records, as  *)
(* HMAC-SHA256 is assumed to; the text of the canonical form is left out.     *)
(* Clients sign every header they send.  The body is part of the canonical    *)
(* request only through its hash, and the hash is the client's own word when  *)
(* the request has one: nothing compares it with the body.                    *)
(***************************************************************************)
EXTENDS Integers

CONSTANTS
  AccessKeys,      \* keys that requests name
  Registered,      \* those in the registry (NewRegistry, LoadFile)
  SecretOf,        \* registered key -> SecretAccessKey
  TokenOf,         \* registered key -> SessionToken, NoToken if it has none
  AccountOf,       \* registered key -> AccountID
  ExpiryOf,        \* registered key -> ExpiresAt, Never if it does not expire
  AllowedRegions,  \* of the configuration; empty for any region
  Skew,            \* 15 minutes: how far X-Amz-Date may be from the clock
  DayLength,       \* length of a day of the credential scope
  Never,           \* later than any time
  NoToken, NoAccount

ASSUME AuthAssumption ==
  /\ Registered \subseteq AccessKeys
  /\ ExpiryOf \in [Registered -> Nat]
  /\ Skew \in Nat /\ DayLength \in Nat \ {0} /\ Never \in Nat

Day(t) == t \div DayLength

\* ------------------------------ requests --------------------------------

\* parseCredentialScope, parseAuthFields: a scope, or nothing when malformed.
Scope(key, date, region, service) ==
  [key |-> key, date |-> date, region |-> region, service |-> service]

\* What identifies a caller.
Identity(key, account) == [key |-> key, account |-> account]

StringToSign(signedAt, scope, canonical) ==
  [signedAt |-> signedAt, scope |-> scope, canonical |-> canonical]

Signature(secret, stringToSign) == [secret |-> secret, stringToSign |-> stringToSign]

Payload(http) == <<http.body, http.json, http.malformed>>

\* claimed is X-Amz-Content-Sha256, "" without it.
buildCanonicalRequest(http, claimed) ==
  [target |-> http.target, contentType |-> http.contentType, url |-> http.url,
   path |-> http.path, payload |-> IF claimed = "" THEN Payload(http) ELSE claimed]

\* A signing is how a client signs: in the header, in the URL, or not at all.
Signed(signing, now, canonical) ==
  LET at == now + signing.ahead
      scope == Scope(signing.key, Day(at), signing.region, "sqs")
  IN  [scheme |-> signing.scheme, scope |-> scope, signedAt |-> at,
       token |-> signing.token, expires |-> signing.expires, canonical |-> canonical,
       signature |-> Signature(signing.secret, StringToSign(at, scope, canonical))]

\* ------------------------------- checks ---------------------------------

\* Authenticate: without an Authorization header or X-Amz-Algorithm there is
\* nothing to check.
HasSignature(auth) == auth.scheme \in {"header", "presigned"}

CredentialExpired(key, now) == now > ExpiryOf[key]

lookupIdentity(auth, now) ==
  /\ auth.scope.key \in Registered
  /\ ~CredentialExpired(auth.scope.key, now)
  /\ TokenOf[auth.scope.key] # NoToken => auth.token = TokenOf[auth.scope.key]

\* Compares the day of the scope with the server's.
validateScope_ServerDay(auth, now) ==
  /\ auth.scope.service = "sqs"
  /\ AllowedRegions # {} => auth.scope.region \in AllowedRegions
  /\ ~(auth.signedAt < now - Skew)
  /\ ~(auth.signedAt > now + Skew)
  /\ Day(now) = auth.scope.date

validateScope(auth, now) ==
  /\ auth.scope.service = "sqs"
  /\ AllowedRegions # {} => auth.scope.region \in AllowedRegions
  /\ ~(auth.signedAt < now - Skew)
  /\ ~(auth.signedAt > now + Skew)
  /\ Day(auth.signedAt) = auth.scope.date

\* Only of a presigned request.
presignedInTime(auth, now) ==
  auth.scheme = "presigned" => ~(now > auth.signedAt + auth.expires)

SignatureMatches(auth, canonical) ==
  auth.signature = Signature(SecretOf[auth.scope.key],
                             StringToSign(auth.signedAt, auth.scope, canonical))

\* What the checks end with.
IdentityOf(auth) == Identity(auth.scope.key, AccountOf[auth.scope.key])

\* ----------------------- what the checks amount to ----------------------

\* What a client may count on: whoever signed holds the secret of a registered
\* credential, and the credential, the date and, of a presigned request, the
\* expiry are in force.  They come into force by one time and last until
\* another; a request takes a while, and `by` and `since` are its two ends.
Acceptable(auth, by, since) ==
  /\ HasSignature(auth)
  /\ auth.scope.key \in Registered
  /\ auth.signature.secret = SecretOf[auth.scope.key]
  /\ TokenOf[auth.scope.key] \in {NoToken, auth.token}
  /\ AllowedRegions = {} \/ auth.scope.region \in AllowedRegions
  /\ auth.signedAt <= by + Skew
  /\ since <= auth.signedAt + Skew /\ since <= ExpiryOf[auth.scope.key]
  /\ auth.scheme = "presigned" => since <= auth.signedAt + auth.expires
=============================================================================
