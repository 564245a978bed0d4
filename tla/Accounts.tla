------------------------------ MODULE Accounts ------------------------------
(***************************************************************************)
(* How an account of matchmaking-service and its referral code come about: *)
(* Register (auth.go), the sign-in with Google (google_auth.go) and        *)
(* GetCode, which gives a code to whom has none (referral.go).             *)
(*                                                                         *)
(* One MongoDB command is one step.  A document of users is named by the   *)
(* call that inserted it.  username is unique, and so is referral_code     *)
(* where the field is there (mongo-init/init.js); google_id is not.        *)
(* A Google account keeps its verified e-mail address to itself, so that   *)
(* either look-up finds the documents of that account.                     *)
(***************************************************************************)
EXTENDS Naturals, Sequences, FiniteSets

CONSTANTS
  Registers,    \* Register calls that may be made
  Wanted,       \* the username each asks for
  SignIns,      \* sign-ins that may be made
  Google,       \* the Google account of each
  Candidates,   \* the usernames tried for a Google account, in order
  Lookups,      \* GetCode calls that may be made
  Seeded,       \* documents of cmd/seed: without the field referral_code
  Codes,        \* referral codes
  NoCode,       \* no field referral_code
  EmptyCode,    \* the field is there, and empty
  NoGoogle,     \* no field google_id
  MaxFailures   \* bound: failed commands

Creators     == Registers \cup SignIns
AccountCalls == Creators \cup Lookups
Accounts     == {Google[s] : s \in SignIns}
Names        == {Wanted[r] : r \in Registers} \cup Seeded
                  \cup UNION {{Candidates[g][n] : n \in DOMAIN Candidates[g]} : g \in Accounts}

\* Each Google account has at least two candidates: the name derived from it
\* and that name with a suffix.
ASSUME AccountsAssumption ==
  /\ Registers \cap SignIns = {} /\ Creators \cap Lookups = {}
  /\ Seeded \cap AccountCalls = {} /\ NoGoogle \notin Accounts
  /\ {NoCode, EmptyCode} \cap Codes = {} /\ NoCode # EmptyCode
  /\ \A g \in Accounts :
       /\ Candidates[g] \in Seq({Candidates[g][n] : n \in DOMAIN Candidates[g]})
       /\ Len(Candidates[g]) >= 2
  /\ MaxFailures \in Nat

VARIABLES
  user,    \* the documents of users
  stage,   \* the place of each call
  name,    \* the username each creator has in hand,
  try,     \*    and how many its sign-in has looked at
  code,    \* the referral code each call has in hand or was answered
  mine,    \* the document each call found or made
  \* what happened, for the properties only
  met,     \* pairs of calls that were under way together
  hit,     \* calls of which a command failed
  failed

callVars == <<stage, name, try, code, mine>>
accountsVars == <<user, callVars, met, hit, failed>>

Nobody == "nobody"
Busy   == {"email", "link", "count", "draw", "insert", "save"}

Document == [name : Names, google : Accounts \cup {NoGoogle},
             code : Codes \cup {NoCode, EmptyCode}]

AccountsTypeOK ==
  /\ DOMAIN user \subseteq Creators \cup Seeded
  /\ \A i \in DOMAIN user : user[i] \in Document
  /\ stage \in [AccountCalls -> Busy \cup {"idle", "ok", "taken", "error"}]
  /\ name \in [Creators -> Names] /\ try \in [SignIns -> Nat]
  /\ \A s \in SignIns : try[s] \in DOMAIN Candidates[Google[s]]
  /\ code \in [AccountCalls -> Codes \cup {NoCode, EmptyCode}]
  /\ mine \in [AccountCalls -> (DOMAIN user) \cup {Nobody}]
  /\ met \subseteq SUBSET AccountCalls /\ hit \subseteq AccountCalls
  /\ failed \in 0..MaxFailures

AccountsInit ==
  /\ user = [i \in Seeded |-> [name |-> i, google |-> NoGoogle, code |-> NoCode]]
  /\ stage = [c \in AccountCalls |-> "idle"]
  /\ name = [c \in Creators |->
               IF c \in Registers THEN Wanted[c] ELSE Candidates[Google[c]][1]]
  /\ try = [s \in SignIns |-> 1]
  /\ code = [c \in AccountCalls |-> NoCode]
  /\ mine = [c \in AccountCalls |-> Nobody]
  /\ met = {} /\ hit = {} /\ failed = 0

Succeeds == UNCHANGED <<hit, failed>>

\* A command of the call fails within the bound, having had its effect or not.
Errs(c) ==
  /\ failed < MaxFailures /\ failed' = failed + 1 /\ hit' = hit \cup {c}

StageTo(c, place) == stage' = [stage EXCEPT ![c] = place]

Found(c, i) == mine' = [mine EXCEPT ![c] = i]

\* The first step of a call: it meets those that are under way.
Meets(c) == met' = met \cup {{c, d} : d \in {e \in AccountCalls : stage[e] \in Busy}}

----------------------------------------------------------------------------
(* The account.                                                            *)

Taken(n) == \E i \in DOMAIN user : user[i].name = n
Held(k)  == \E i \in DOMAIN user : user[i].code = k

\* Register looks for the username.
FindName(r) ==
  /\ stage[r] = "idle" /\ Meets(r)
  /\ \/ Succeeds /\ StageTo(r, IF Taken(name[r]) THEN "taken" ELSE "draw")
     \/ Errs(r) /\ StageTo(r, "error")
  /\ UNCHANGED <<user, name, try, code, mine>>

DocumentsOf(s) == {i \in DOMAIN user : user[i].google = Google[s]}

\* Wrong: an error is taken for a first sign-in.
FindGoogle_ErrorIsNew(s) ==
  /\ stage[s] = "idle" /\ Meets(s)
  /\ \/ /\ Succeeds /\ DocumentsOf(s) # {} /\ StageTo(s, "ok")
        /\ \E i \in DocumentsOf(s) : Found(s, i)
     \/ /\ (Succeeds /\ DocumentsOf(s) = {}) \/ Errs(s)
        /\ StageTo(s, "count") /\ UNCHANGED mine
  /\ UNCHANGED <<user, name, try, code>>

\* The look-up by google_id.  What is refreshed in the document that it finds
\* is the same again, and an error of that only logged.
FindGoogle(s) ==
  /\ stage[s] = "idle" /\ Meets(s)
  /\ \/ /\ Succeeds /\ DocumentsOf(s) # {} /\ StageTo(s, "ok")
        /\ \E i \in DocumentsOf(s) : Found(s, i)
     \/ /\ Succeeds /\ DocumentsOf(s) = {} /\ StageTo(s, "email") /\ UNCHANGED mine
     \/ Errs(s) /\ StageTo(s, "error") /\ UNCHANGED mine
  /\ UNCHANGED <<user, name, try, code>>

\* The look-up by e-mail.  Its error is taken for "no such document".
FindEmail(s) ==
  /\ stage[s] = "email"
  /\ \/ /\ Succeeds /\ DocumentsOf(s) # {} /\ StageTo(s, "link")
        /\ \E i \in DocumentsOf(s) : Found(s, i)
     \/ /\ (Succeeds /\ DocumentsOf(s) = {}) \/ Errs(s)
        /\ StageTo(s, "count") /\ UNCHANGED mine
  /\ UNCHANGED <<user, name, try, code, met>>

\* The Google account is written into the document that was found.
Link(s) ==
  /\ stage[s] = "link"
  /\ \/ /\ Succeeds /\ StageTo(s, "ok")
        /\ user' = [user EXCEPT ![mine[s]].google = Google[s]]
     \/ /\ Errs(s) /\ StageTo(s, "error")
        /\ user' \in {user, [user EXCEPT ![mine[s]].google = Google[s]]}
  /\ UNCHANGED <<name, try, code, mine, met>>

\* ensureUniqueUsername: the last candidate is taken without looking.
CountName(s) ==
  LET names == Candidates[Google[s]]
  IN  /\ stage[s] = "count"
      /\ \/ /\ Succeeds /\ ~Taken(name[s]) /\ StageTo(s, "draw")
            /\ UNCHANGED <<name, try>>
         \/ /\ Succeeds /\ Taken(name[s]) /\ try[s] < Len(names)
            /\ try' = [try EXCEPT ![s] = @ + 1]
            /\ name' = [name EXCEPT ![s] = names[try[s] + 1]]
            /\ StageTo(s, IF try[s] + 1 = Len(names) THEN "draw" ELSE "count")
         \/ Errs(s) /\ StageTo(s, "error") /\ UNCHANGED <<name, try>>
      /\ UNCHANGED <<user, code, mine, met>>

----------------------------------------------------------------------------
(* The code.                                                               *)

\* Wrong: it is not looked whether somebody has the code.
Draw_Unchecked(c) ==
  /\ stage[c] = "draw" /\ Succeeds
  /\ \E k \in Codes : code' = [code EXCEPT ![c] = k]
  /\ StageTo(c, IF c \in Lookups THEN "save" ELSE "insert")
  /\ UNCHANGED <<user, name, try, mine, met>>

\* generateUniqueCode, whose ten attempts fail when every code is held.
\* Without a code an account is made all the same, and GetCode gives up.
Draw(c) ==
  /\ stage[c] = "draw"
  /\ \/ /\ Succeeds
        /\ \E k \in Codes : ~Held(k) /\ code' = [code EXCEPT ![c] = k]
        /\ StageTo(c, IF c \in Lookups THEN "save" ELSE "insert")
     \/ /\ Errs(c) \/ (Succeeds /\ \A k \in Codes : Held(k))
        /\ code' = [code EXCEPT ![c] = IF c \in Lookups THEN NoCode ELSE EmptyCode]
        /\ StageTo(c, IF c \in Lookups THEN "error" ELSE "insert")
  /\ UNCHANGED <<user, name, try, mine, met>>

\* InsertOne of both.  The unique indexes refuse a name that is taken and a
\* code that is held, the empty one included.
Insert(c) ==
  LET clash == Taken(name[c]) \/ Held(code[c])
      google == IF c \in SignIns THEN Google[c] ELSE NoGoogle
      new   == [name |-> name[c], google |-> google, code |-> code[c]]
      made  == /\ ~clash
               /\ user' = [i \in DOMAIN user \cup {c} |->
                             IF i = c THEN new ELSE user[i]]
  IN  /\ stage[c] = "insert"
      /\ \/ Succeeds /\ made /\ StageTo(c, "ok") /\ Found(c, c)
         \/ Succeeds /\ clash /\ StageTo(c, "error") /\ UNCHANGED <<user, mine>>
         \/ Errs(c) /\ StageTo(c, "error") /\ (made \/ UNCHANGED user) /\ UNCHANGED mine
      /\ UNCHANGED <<name, try, code, met>>

\* Wrong: a code is drawn for whoever asks.
ReadCode_Always(l) ==
  /\ stage[l] = "idle" /\ Meets(l) /\ Succeeds /\ StageTo(l, "draw")
  /\ \E i \in DOMAIN user : Found(l, i)
  /\ UNCHANGED <<user, name, try, code>>

\* GetCode reads the document of its caller.
ReadCode(l) ==
  /\ stage[l] = "idle" /\ Meets(l)
  /\ \/ \E i \in DOMAIN user :
          /\ Succeeds /\ Found(l, i)
          /\ IF user[i].code \in {NoCode, EmptyCode}
               THEN StageTo(l, "draw") /\ UNCHANGED code
               ELSE StageTo(l, "ok") /\ code' = [code EXCEPT ![l] = user[i].code]
     \/ Errs(l) /\ StageTo(l, "error") /\ UNCHANGED <<code, mine>>
  /\ UNCHANGED <<user, name, try>>

\* GetCode saves the code it drew, whatever the document holds by now.
SaveCode(l) ==
  LET clash == \E i \in DOMAIN user \ {mine[l]} : user[i].code = code[l]
      saved == ~clash /\ user' = [user EXCEPT ![mine[l]].code = code[l]]
  IN  /\ stage[l] = "save"
      /\ \/ Succeeds /\ saved /\ StageTo(l, "ok")
         \/ Succeeds /\ clash /\ StageTo(l, "error") /\ UNCHANGED user
         \/ Errs(l) /\ StageTo(l, "error") /\ (saved \/ UNCHANGED user)
      /\ UNCHANGED <<name, try, code, mine, met>>

----------------------------------------------------------------------------
RegisterStep(r) == FindName(r) \/ Draw(r) \/ Insert(r)

\* A sign-in whose token Google does not confirm leaves no trace.
SignInStep(s) ==
  FindGoogle(s) \/ FindEmail(s) \/ Link(s) \/ CountName(s) \/ Draw(s) \/ Insert(s)

GetCodeStep(l) == ReadCode(l) \/ Draw(l) \/ SaveCode(l)

AccountsNext ==
  \/ \E r \in Registers : RegisterStep(r)
  \/ \E s \in SignIns : SignInStep(s)
  \/ \E l \in Lookups : GetCodeStep(l)

AccountsSpec == AccountsInit /\ [][AccountsNext]_accountsVars

----------------------------------------------------------------------------
(* What holds.                                                             *)

\* A Google account has a second document only if the two sign-ins that made
\* them were under way together; a failed look-up alone makes none
\* (google_auth.go:263-342).
TwinsMet ==
  \A i, j \in DOMAIN user :
    i # j /\ user[i].google = user[j].google /\ user[i].google # NoGoogle
      => {i, j} \in met

\* A code that GetCode has answered stays the code of that document, unless
\* another GetCode was under way for it (referral.go:161-178).
AnsweredCodeLasts ==
  \A l \in Lookups :
    stage[l] = "ok" =>
      \/ user[mine[l]].code = code[l]
      \/ \E k \in Lookups : {k, l} \in met /\ mine[k] = mine[l]

\* A call that met nobody and none of whose commands failed ends in an
\* account or a code: what it looked up before is not what the unique
\* indexes refuse, but for a username that was not looked up any more
\* (auth.go:73-110, google_auth.go:308-339, referral.go:539-551).
UndisturbedSucceeds ==
  \A c \in AccountCalls \ hit :
    stage[c] = "error" =>
      \/ \E d \in AccountCalls : {c, d} \in met
      \/ c \in SignIns /\ try[c] = Len(Candidates[Google[c]])

----------------------------------------------------------------------------
(* What the comments say, and the code does not do.                        *)

\* "Non-fatal: if generation fails, the code stays empty" (auth.go:91-92):
\* the second account with an empty code is refused.
CodeIsOptional ==
  \A c \in Creators :
    stage[c] = "error" /\ code[c] = EmptyCode /\ failed = Cardinality(hit)
      => \E d \in AccountCalls : {c, d} \in met

\* "if the code is already set, the UpdateOne below is a no-op"
\* (referral.go:162).
AnsweredCodeIsKept ==
  \A l \in Lookups : stage[l] = "ok" => user[mine[l]].code = code[l]
=============================================================================
