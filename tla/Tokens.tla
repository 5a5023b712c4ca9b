-------------------------------- MODULE Tokens --------------------------------
(***************************************************************************)
(* The tokens that the HTTP and the gRPC server of any instance with the   *)
(* same jwt-secret issue (pkg/api/http/token.go, pkg/api/grpc/token.go),   *)
(* and what either of them says of a token at a later time.  Time is       *)
(* counted in half seconds, the claim exp in whole ones.                   *)
(***************************************************************************)
EXTENDS Integers

CONSTANTS Starts, MaxTime   \* times of issue, and the last time considered

VARIABLES
  now,
  token,     \* the token under way, or NoToken
  sent,      \* the words of the authorization header, the token last
  http,      \* the last reply of GET /token/validate
  grpc       \* the last reply of TokenValidate

tokenVars == <<now, token, sent, http, grpc>>

Minute  == 60
Unix(t) == t \div 2

NoToken == [alg |-> "none", key |-> "none", iss |-> "none", exp |-> 0, name |-> "none", at |-> 0]
NoReply == [code |-> "none", body |-> "none"]

Headers == {<<>>, <<"Bearer", "token">>, <<"bearer", "token">>, <<"token">>, <<"Bearer", "a", "token">>}

\* Tokens that others signed, with the same secret or another one; exp 0 is
\* a token without that claim.
Foreign ==
  [alg : {"HS256", "HS512", "RS256", "none"}, key : {"ours", "other"}, iss : {"podinfo", "other"},
   exp : {0, 30}, name : {"them"}, at : {0}]

TypeOK ==
  /\ now \in 0..MaxTime
  /\ token \in Foreign \cup {NoToken}
       \cup [alg : {"HS256"}, key : {"ours"}, iss : {"podinfo"}, exp : Minute..(Minute + MaxTime),
             name : {"body", "anonymous"}, at : Starts]
  /\ sent \in Headers
  /\ http.code \in {"none", "200"} /\ http.body \in {"none", "claims", "error"}
  /\ grpc.code \in {"none", "OK", "Unauthenticated"} /\ grpc.body \in {"none", "claims", "message", "empty"}

Init == now = 0 /\ token = NoToken /\ sent = <<>> /\ http = NoReply /\ grpc = NoReply

Issued(name) == [alg |-> "HS256", key |-> "ours", iss |-> "podinfo",
                 exp |-> Unix(now) + Minute, name |-> name, at |-> now]

-----------------------------------------------------------------------------
\* The name is the body of the request, if there is one.
tokenGenerateHandler ==
  /\ token = NoToken /\ now \in Starts
  /\ \E name \in {"body", "anonymous"} : token' = Issued(name)
  /\ UNCHANGED <<now, sent, http, grpc>>

TokenGenerate ==
  /\ token = NoToken /\ now \in Starts
  /\ token' = Issued("anonymous")
  /\ UNCHANGED <<now, sent, http, grpc>>

ForeignToken ==
  /\ token = NoToken /\ token' \in Foreign
  /\ UNCHANGED <<now, sent, http, grpc>>

Pass ==
  /\ now < MaxTime /\ now' = now + 1
  /\ UNCHANGED <<token, sent, http, grpc>>

-----------------------------------------------------------------------------
(* jwt.ParseWithClaims.                                                    *)
Hmac(t)     == t.alg \in {"HS256", "HS512"}   \* what the key functions let through
\* Mutant: a token is still valid in the second in which it expires.
Expired_inclusive(t) == t.exp # 0 /\ Unix(now) > t.exp

Expired(t)  == t.exp # 0 /\ Unix(now) >= t.exp
Verified(t) == t.key = "ours"
Valid(t)    == Hmac(t) /\ ~Expired(t) /\ Verified(t)

\* Two words, the first of them "bearer" in any case.
HttpHeader(words) == words \in {<<"Bearer", "token">>, <<"bearer", "token">>}

\* Every error reply has status 200.
tokenValidateHandler ==
  /\ token # NoToken
  /\ sent' \in Headers
  /\ http' = [code |-> "200", body |-> IF /\ HttpHeader(sent') /\ Valid(token)
                                          /\ token.iss = "podinfo"
                                       THEN "claims" ELSE "error"]
  /\ UNCHANGED <<now, token, grpc>>

\* The prefix "Bearer" may be missing; in another case it is part of the token.
GrpcHeader(words) == words \in {<<"Bearer", "token">>, <<"token">>}

\* An expired or badly signed token gets a message, another issuer nothing
\* at all (an error with the code OK is no error).
GrpcReply(words) ==
  IF words = <<>> \/ ~GrpcHeader(words) \/ ~Hmac(token) THEN [code |-> "Unauthenticated", body |-> "none"]
  ELSE IF ~Valid(token) THEN [code |-> "OK", body |-> "message"]
  ELSE [code |-> "OK", body |-> IF token.iss = "podinfo" THEN "claims" ELSE "empty"]

TokenValidate ==
  /\ token # NoToken
  /\ sent' \in Headers
  /\ grpc' = GrpcReply(sent')
  /\ UNCHANGED <<now, token, http>>

TokenNext ==
  \/ tokenGenerateHandler \/ TokenGenerate \/ ForeignToken \/ Pass
  \/ tokenValidateHandler \/ TokenValidate

TokenSpec == Init /\ [][TokenNext]_tokenVars

-----------------------------------------------------------------------------
Asked == sent' # <<>> /\ HttpHeader(sent') /\ GrpcHeader(sent')
Ours  == token.at \in Starts /\ token.name # "them"

Accepted == (tokenValidateHandler /\ http'.body = "claims") \/ (TokenValidate /\ grpc'.body = "claims")

Answers ==
  /\ Accepted => /\ token.key = "ours" /\ token.alg \in {"HS256", "HS512"} /\ token.iss = "podinfo"
                 /\ Ours => now - token.at < 2 * Minute
  /\ (Ours /\ now - token.at <= 2 * (Minute - 1) /\ Asked) =>
       /\ tokenValidateHandler => http'.body = "claims"
       /\ TokenValidate => grpc'.body = "claims"

(* Whichever server issued a token and whichever is asked: what podinfo    *)
(* issued is accepted for 59 seconds and never for more than 60, and of    *)
(* other tokens only those that have our secret, an HMAC and our issuer;   *)
(* acceptance is told by the body, since refusals may have code 200 or OK. *)
TokensLastAMinute == [][Answers]_tokenVars
=============================================================================
