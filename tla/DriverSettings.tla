----------------------------- MODULE DriverSettings ----------------------------
(***************************************************************************)
(* The credential of the driver: what the operator accepts in the secret   *)
(* that a MarketplaceCSIDriver names, what the driver's containers make of *)
(* it, and the file with it that they leave for s3fs.                      *)
(***************************************************************************)
EXTENDS Naturals, Sequences

CONSTANTS
    Unreadable    \* no text: a token that does not parse, a claim that is no string

\* The resource requires a type, one of the three; the secret holds what users
\* put into it.  Texts are sequences, a token is the function of its claims.
CredentialTypes == {"hmac", "rhm-pull-secret", "rhm-pull-secret-hmac"}
Keys == {"AccessKeyID", "SecretAccessKey", "PULL_SECRET"}

\* Mutant: the type with "hmac" in its name is taken for the other one.
checkAnyHmac(type, secret) ==
    IF type = "rhm-pull-secret" THEN "PULL_SECRET" \in DOMAIN secret
    ELSE {"AccessKeyID", "SecretAccessKey"} \subseteq DOMAIN secret

\* The operator looks for the keys and not at what they hold.
checkCredentialFields(type, secret) ==
    IF type = "hmac" THEN {"AccessKeyID", "SecretAccessKey"} \subseteq DOMAIN secret
    ELSE "PULL_SECRET" \in DOMAIN secret

--------------------------------------------------------------------------------
(* The driver *)

Filled(secret, key) == key \in DOMAIN secret /\ secret[key] # <<>>   \* getSecretValue
IsToken(text) == text # Unreadable   \* ParseJWTclaims
IsText(claims, key) == key \in DOMAIN claims /\ claims[key] # Unreadable   \* GetClaimValue

\* GetDriverConfiguration returns no error on account of the credential.
Readable(type, secret) ==
    CASE type = "hmac" ->
           Filled(secret, "AccessKeyID") /\ Filled(secret, "SecretAccessKey")
      [] OTHER ->
           /\ Filled(secret, "PULL_SECRET")
           /\ IsToken(secret["PULL_SECRET"])
           /\ IF type = "rhm-pull-secret-hmac"
              THEN /\ IsText(secret["PULL_SECRET"], "access_key_id")
                   /\ IsText(secret["PULL_SECRET"], "secret_access_key")
              ELSE IsText(secret["PULL_SECRET"], "iam_apikey")

\* setUpCredentials: the line that goes into the file, of a readable secret.
CredentialText(type, secret) ==
    CASE type = "hmac" -> secret["AccessKeyID"] \o <<":">> \o secret["SecretAccessKey"]
      [] type = "rhm-pull-secret-hmac" ->
           secret["PULL_SECRET"]["access_key_id"] \o <<":">>
               \o secret["PULL_SECRET"]["secret_access_key"]
      [] OTHER -> <<":">> \o secret["PULL_SECRET"]["iam_apikey"]

\* Mutant: the file is opened for appending.
AppendText(file, text) == file \o text

\* WriteFile opens the file without truncating it: the end of a longer text stays.
WriteFile(file, text) == text \o SubSeq(file, Len(text) + 1, Len(file))

================================================================================
