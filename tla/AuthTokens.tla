------------------------------ MODULE AuthTokens ------------------------------
(***************************************************************************)
(* The tokens of auth-service: login against its table of profiles, the    *)
(* signed claims, and the check of the gateway; with them the second table *)
(* of profiles, in spr-storage, and what its copy of the login contract    *)
(* answers.  No page calls any of this at this commit: a page logs in by   *)
(* auth_handler.js and opens its socket without a token.                   *)
(*                                                                         *)
(* Auth-service and gateway are two hosts.  Time is counted in parts of a  *)
(* second; the code sees whole seconds of the clock of its own host.       *)
(* Digests, signatures and encodings are perfect: a string passes the      *)
(* check of the signature if it is a token as auth-service made it.        *)
(***************************************************************************)
EXTENDS Integers, FiniteSets

CONSTANTS Inputs,      \* strings given as an e-mail or a password
          Second,      \* parts of a second
          Life,        \* seconds a token lives: 7200
          MaxSkew,     \* parts of a second between the clocks of the hosts
          MaxTime,     \* bound on the time
          MaxTokens,   \* bound on the logins that are looked at
          None

Claims == [user : {"user_david", "user_employee"}, email : Inputs,
           role : {"ORGANIZER", "EMPLOYEE"}, exp : Int]

ASSUME TokenAssumption ==
  /\ Second \in Nat \ {0} /\ Life \in Nat /\ MaxSkew \in Nat
  /\ MaxTime \in Nat /\ MaxTokens \in Nat
  /\ None \notin Claims

VARIABLES time,       \* of auth-service
          skew,       \* of the gateway's clock
          issued,     \* history: answers of auth-service with a token
          replies,    \* history: answers of spr-storage to a login
          judged      \* history: result of the gateway's last check

tokenVars == <<time, skew, issued, replies, judged>>

Digest(s) == <<"sha256", s>>
Unix(t) == t \div Second

\* A string in the place of a token that auth-service did not make.
Text(s) == [text |-> s]
-----------------------------------------------------------------------------
BootstrapMockProfiles ==
  [user_david |->
     [email |-> "david@clearway.ru", hash |-> Digest("admin123"), role |-> "ORGANIZER"],
   user_employee |->
     [email |-> "konstantin@clearway.ru", hash |-> Digest("user123"), role |-> "EMPLOYEE"]]

BootstrapScyllaTables ==
  [user_david |->
     [email |-> "david@clearway.ru", password |-> "admin123", role |-> "ORGANIZER"],
   user_employee |->
     [email |-> "konstantin@clearway.ru", password |-> "user123", role |-> "EMPLOYEE"]]

GetProfileByEmail(email) ==
  {u \in DOMAIN BootstrapScyllaTables : BootstrapScyllaTables[u].email = email}
-----------------------------------------------------------------------------
TokenInit ==
  /\ time = 0 /\ skew \in -MaxSkew .. MaxSkew
  /\ issued = {} /\ replies = {} /\ judged = None

Elapse == /\ time < MaxTime /\ time' = time + 1
          /\ UNCHANGED <<skew, issued, replies, judged>>

\* The users AuthenticateUser lets in: those with the e-mail whose digest is
\* that of the password.
Authenticated(email, password) ==
  {u \in DOMAIN BootstrapMockProfiles :
     /\ BootstrapMockProfiles[u].email = email
     /\ BootstrapMockProfiles[u].hash = Digest(password)}

GenerateHmacJwt(u, expiresAt) ==
  [user |-> u, email |-> BootstrapMockProfiles[u].email,
   role |-> BootstrapMockProfiles[u].role, exp |-> expiresAt]

LoginSubscriber(email, password) ==
  /\ email # "" /\ password # "" /\ Cardinality(issued) < MaxTokens
  /\ \E u \in Authenticated(email, password) :
       issued' = issued \union
         {[claims |-> GenerateHmacJwt(u, Unix(time) + Life), at |-> time,
           by |-> [email |-> email, password |-> password]]}
  /\ UNCHANGED <<time, skew, replies, judged>>

\* spr-storage looks the user up by the e-mail; the field of the token holds
\* the stored password, for its caller to compare.
SprLoginSubscriber(email) ==
  /\ email # ""
  /\ \E u \in GetProfileByEmail(email) :
       replies' = replies \union
         {[email |-> email, jwtToken |-> Text(BootstrapScyllaTables[u].password)]}
  /\ UNCHANGED <<time, skew, issued, judged>>

\* The slip refuses a token in its last second already.
ExpiredAtEnd(claims) == Unix(time + skew) >= claims.exp
Expired(claims) == Unix(time + skew) > claims.exp

\* ValidateAndParseJwt: anything but a token as it was issued is refused for
\* its parts or its signature.
ValidateAndParseJwt(token) ==
  /\ judged' = [token |-> token, at |-> time,
                claims |-> IF token \notin issued \/ Expired(token.claims)
                           THEN None ELSE token.claims]
  /\ UNCHANGED <<time, skew, issued, replies>>

TokenNext ==
  \/ Elapse
  \/ \E token \in issued \union {r.jwtToken : r \in replies} : ValidateAndParseJwt(token)
  \/ \E email \in Inputs, password \in Inputs : LoginSubscriber(email, password)
  \/ \E email \in Inputs : SprLoginSubscriber(email)

TokenSpec == TokenInit /\ [][TokenNext]_tokenVars
-----------------------------------------------------------------------------
\* A token works for all of its two hours, and for less than a second more,
\* shifted by what the clocks of the two hosts differ by (whole seconds in
\* AuthenticateUser and in ValidateAndParseJwt).
TokensLiveTwoHours ==
  judged # None /\ judged.token \in issued =>
    LET age == judged.at - judged.token.at
    IN  IF judged.claims = None THEN age > Life * Second - skew
                                ELSE age < (Life + 1) * Second - skew
=============================================================================
