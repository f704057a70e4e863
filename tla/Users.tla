------------------------------- MODULE Users -------------------------------
(***************************************************************************)
(* Users and their passwords (src/User.cc).  A token is the password with  *)
(* bits ORed into every character, according to the ring of the user; two  *)
(* passwords may have the same token.                                      *)
(***************************************************************************)
EXTENDS Naturals, FiniteSets

CONSTANTS
    UserNames,
    Passwords,     \* passwords that are not empty
    Tokens         \* what they are hashed to
ASSUME SomeUsers == UserNames # {} /\ Passwords # {}

Empty == "empty"
NoToken == "zero"   \* fUserToken as the constructor leaves it
Rings == {"std", "super", "guest"}

VARIABLES
    ring,         \* fRing of every user
    hash,         \* cred_construct_token: token of a password under a ring's bits
    fUserToken,   \* what is stored for a user
    matched        \* what Matches last said, and to which user and password

userVars == <<ring, hash, fUserToken, matched>>

\* Only a standard user's bits differ from the others'.
Bits(r) == IF r = "std" THEN "kStdUserType" ELSE "kSuperUserType"

UsersInit ==
    /\ ring \in [UserNames -> Rings]
    /\ hash \in [{"kStdUserType", "kSuperUserType"} \X (Passwords \cup {Empty}) -> Tokens]
    /\ fUserToken = [u \in UserNames |-> NoToken]
    /\ matched = "none"

Token(u, p) == hash[<<Bits(ring[u]), p>>]

\* cred_construct_token returns 0 when it has done its work, which both callers
\* take for a failure: nothing is ever saved and nobody matches, against what
\* User.h:69 and :72 say.
Constructed(u, p) == 0

Failed(code) == code = 0

\* User::Save
Save(u, p) ==
    /\ fUserToken' = IF p = Empty \/ Failed(Constructed(u, p))
                       THEN fUserToken ELSE [fUserToken EXCEPT ![u] = Token(u, p)]
    /\ UNCHANGED <<ring, hash, matched>>

\* User::Matches goes on with an empty password only.
Matches(u, p) ==
    /\ matched' = IF p # Empty \/ Failed(Constructed(u, p)) \/ Token(u, p) # fUserToken[u]
                   THEN "No" ELSE "Yes"
    /\ UNCHANGED <<ring, hash, fUserToken>>

UsersNext == \E u \in UserNames, p \in Passwords \cup {Empty} : Save(u, p) \/ Matches(u, p)
----------------------------------------------------------------------------
UsersTypeOK ==
    /\ ring \in [UserNames -> Rings] /\ fUserToken \in [UserNames -> Tokens \cup {NoToken}]
    /\ matched \in {"none", "Yes", "No"}
=============================================================================
