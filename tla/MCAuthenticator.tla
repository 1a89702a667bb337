-------------------------- MODULE MCAuthenticator --------------------------
(* Four configurations, an RSA key and an EC key of the provider, and one   *)
(* request for each path through the code.                                    *)
EXTENDS Authenticator

Key(kid, kty) == [kid |-> kid, kty |-> kty]
MCKeys == {Key("1", "RS"), Key("3", "ES")}
Rsa == Key("", "RS")
Secret == Key("", "HS")
Foreign == Key("foreign", "RS")

Jwt == [legacy |-> FALSE, alg |-> "RS", static |-> Rsa, jwks |-> TRUE, enabled |-> TRUE,
        webhook |-> FALSE, skew |-> 1, skipVerification |-> FALSE,
        skipExpiration |-> FALSE, issuer |-> "i", audience |-> "a", default |-> "user",
        unauthorized |-> "anonymous", adminSecret |-> "s"]
MCConfigs == {
  Jwt,
  [Jwt EXCEPT !.alg = "ES", !.static = NoKey, !.enabled = FALSE],
  [Jwt EXCEPT !.legacy = TRUE, !.alg = "HS", !.static = Secret, !.webhook = TRUE],
  [Jwt EXCEPT !.alg = "", !.skipVerification = TRUE, !.skipExpiration = TRUE, !.adminSecret = ""]}

Token(alg, kid, signer) ==
  [alg |-> alg, kid |-> kid, signer |-> signer, wellFormed |-> TRUE, exp |-> NoTime,
   nbf |-> NoTime, iss |-> "i", aud |-> {"a"}, role |-> "", allowed |-> <<"editor">>]
With(token) == [secret |-> "", token |-> token]
MCRequests == {
  [secret |-> "s", token |-> None], With(None),
  With(Token("RS", "1", Key("1", "RS"))),
  With(Token("RS", "1", Foreign)),
  With([Token("RS", "", Rsa) EXCEPT !.exp = 0, !.role = "user"]),
  With([Token("HS", "", Secret) EXCEPT !.nbf = 1, !.allowed = <<>>]),
  With(Token("ES", "3", Key("3", "ES")))}
=============================================================================
