------------------------------- MODULE Tokens -------------------------------
(***************************************************************************)
(* What the server makes of a public key and of a token: pure functions of *)
(* pkg/crypto and of the middleware's reading of claims.                   *)
(*                                                                         *)
(* A key file is the type of its PEM block, what is inside, and the key    *)
(* pair it is of.  Inside an "ML-DSA PUBLIC KEY" the size of the key tells *)
(* the parameters, so they stand for the size.  A token is the algorithm   *)
(* of its header, the key pair that signed exactly this header and payload *)
(* (Missing if none did), the two claims and the time it expires, which    *)
(* clients may give as a fraction: it is counted in half seconds.          *)
(*                                                                         *)
(* The libraries are external: jwx verifies ES256 and ES512 with any EC    *)
(* key, checks exp also where the signature is not verified, and takes a   *)
(* token without exp, or with one of second 0, as one that does not expire *)
(* (iat and nbf, for which it may refuse more, are left out); mldsa        *)
(* verifies.                                                               *)
(***************************************************************************)
EXTENDS Integers

CONSTANTS
    KeyPairs,   (* who can sign                                              *)
    Missing,    (* a claim that is not there, a signature of nobody          *)
    Now         (* the time, in seconds                                      *)

ASSUME TokensAssumption ==
    /\ Missing \notin KeyPairs \union Int
    /\ Now \in Nat

EC     == {"ES256", "ES512"}
MLDSA  == {"ML-DSA-44", "ML-DSA-65", "ML-DSA-87"}
Others == {"RS256", "ES384"}

Blocks   == {"PUBLIC KEY", "ML-DSA PUBLIC KEY", "CERTIFICATE"}
Contents == {"EC", "RSA", "bytes"} \union MLDSA

KeyFiles == [block : Blocks, content : Contents, pair : KeyPairs]

TokenForms ==
    [alg : EC \union MLDSA \union Others, signer : KeyPairs \union {Missing},
     exp : Int \union {Missing}]

-----------------------------------------------------------------------------
(* Keys.                                                                    *)

DetectKeyType(file) ==
    CASE file.block = "PUBLIC KEY"        -> "ECDSA"
      [] file.block = "ML-DSA PUBLIC KEY" -> "MLDSA"
      [] OTHER                            -> "unknown"

ParseMLDSAPublicKey(file, alg) ==
    file.block = "ML-DSA PUBLIC KEY" /\ file.content = alg

(* Variant: any key that the library can parse will do.                    *)
ValidatesAnyKey(file) ==
    \/ DetectKeyType(file) = "ECDSA" /\ file.content \in {"EC", "RSA"}
    \/ DetectKeyType(file) = "MLDSA" /\ \E alg \in MLDSA : ParseMLDSAPublicKey(file, alg)

(* Whether a machine may be registered with this key.                      *)
ValidatePublicKey(file) ==
    \/ DetectKeyType(file) = "ECDSA" /\ file.content = "EC"
    \/ DetectKeyType(file) = "MLDSA" /\ \E alg \in MLDSA : ParseMLDSAPublicKey(file, alg)

-----------------------------------------------------------------------------
(* Tokens.                                                                  *)

(* int64(claims.Exp): what is not there is 0, a fraction is cut towards 0.  *)
Int64Exp(token) ==
    IF token.exp = Missing THEN 0
    ELSE IF token.exp >= 0 THEN token.exp \div 2
    ELSE -((-token.exp) \div 2)

(* jwx, wherever it parses a token.  To it second 0 is no expiry: it is what *)
(* an exp that is not there reads as.                                      *)
ECUnexpired(token) == Int64Exp(token) = 0 \/ Int64Exp(token) > Now

(* extractAuthClaims, of a token whose two claims are there.               *)
ExtractAuthClaims(token) ==
    \/ token.alg \in EC /\ ECUnexpired(token)
    \/ token.alg \in MLDSA

(* Variant: the fraction of a second that a token has expired is rounded up. *)
VerifyMLDSAJWTRounding(token, file) ==
    token.signer = file.pair /\ token.exp # Missing /\ (token.exp + 1) \div 2 >= Now

VerifyMLDSAJWT(token, file) ==
    token.signer = file.pair /\ Int64Exp(token) > Now

VerifyJWT(token, file) ==
    \/ /\ token.alg \in EC
       /\ file.block = "PUBLIC KEY" /\ file.content = "EC"
       /\ token.signer = file.pair /\ ECUnexpired(token)
    \/ /\ token.alg \in MLDSA
       /\ ParseMLDSAPublicKey(file, token.alg)
       /\ VerifyMLDSAJWT(token, file)

-----------------------------------------------------------------------------
(* What a token that is accepted should be: signed with the key pair of the *)
(* file, by an algorithm that goes with it, and with an expiry to come.  One *)
(* without an expiry, or less than a second from second 0, never expires,   *)
(* and is for EC keys only.                                                 *)
FitsKey(alg, file) ==
    IF file.content = "EC" THEN alg \in EC ELSE alg = file.content

NeverExpires(token) == token.exp = Missing \/ (token.exp > -2 /\ token.exp < 2)

Genuine(token, file) ==
    /\ token.signer = file.pair
    /\ FitsKey(token.alg, file)
    /\ \/ token.exp # Missing /\ token.exp > 2 * Now
       \/ token.alg \in EC /\ NeverExpires(token)

(* A token its owner could make for the file's key, good for a second more. *)
Fresh(alg, file) ==
    [alg |-> alg, signer |-> file.pair, exp |-> 2 * (Now + 1)]
=============================================================================
