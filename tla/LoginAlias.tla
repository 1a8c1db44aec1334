----------------------------- MODULE LoginAlias -----------------------------
(***************************************************************************)
(* Sign-in identifiers of one application: pkg/registry.  An identifier is *)
(* the name of a cdoc.registry.Login or an alias, found by a row of        *)
(* cdoc.registry.LoginAlias in the application workspace of the alias.     *)
(* The projector ApplySetLoginAlias changes an alias by calls to three     *)
(* workspaces; a call may fail with or without effect, and after a crash   *)
(* the projector begins with the event again, also when only its position  *)
(* was not saved.                                                          *)
(*                                                                         *)
(* An identifier stands for the application workspace it hashes to, whose  *)
(* commands are executed one after another.                                *)
(***************************************************************************)
EXTENDS Naturals, Sequences

CONSTANTS
    Identifiers,
    NoIdentifier,   \* the empty string
    MaxLogins,      \* bound: CDocs created
    MaxChanges,     \* bound: accepted alias changes
    MaxAliasFaults  \* bound: failed calls and crashes

ASSUME LoginAliasConstants ==
    /\ NoIdentifier \notin Identifiers
    /\ MaxLogins \in Nat /\ MaxChanges \in Nat /\ MaxAliasFaults \in Nat

VARIABLES
    logins,     \* cdoc.registry.Login in the order of creation
    aliasIndex, \* [Identifiers -> cdoc.registry.LoginAlias]
    requests,   \* [Identifiers -> aliases asked for, by login name]
    changing,   \* [Identifiers -> the calls of the projector]
    asked,
    aliasFaults

aliasVars == <<logins, aliasIndex, requests, changing, asked, aliasFaults>>

NotChanging == [calls |-> <<>>, login |-> 0, old |-> NoIdentifier]

LoginAliasInit ==
    /\ logins = <<>>
    /\ aliasIndex = [x \in Identifiers |-> [active |-> FALSE, login |-> 0]]
    /\ requests = [x \in Identifiers |-> <<>>]
    /\ changing = [x \in Identifiers |-> NotChanging]
    /\ asked = 0 /\ aliasFaults = 0

-----------------------------------------------------------------------------
\* GetCDocLogin: view LoginIdx leads to the last Login created, a deactivated
\* one is treated as missing.  0: not found.
CDocLogin(x) ==
    IF \E i \in DOMAIN logins : logins[i].name = x /\ logins[i].active
    THEN CHOOSE i \in DOMAIN logins : logins[i].name = x /\ logins[i].active
    ELSE 0

\* Mutated form of IdentifierAvailable: active aliases are not looked at.
IdentifierUnused(x, allowed) == CDocLogin(x) = 0

\* assertIdentifierAvailable
IdentifierAvailable(x, allowed) ==
    /\ CDocLogin(x) = 0
    /\ aliasIndex[x].active => aliasIndex[x].login = allowed

CreateLogin(x) ==
    /\ IdentifierAvailable(x, 0) /\ Len(logins) < MaxLogins
    /\ logins' = Append(logins, [name |-> x, active |-> TRUE, alias |-> NoIdentifier,
                                 inProc |-> FALSE, error |-> FALSE])
    /\ UNCHANGED <<aliasIndex, requests, changing, asked, aliasFaults>>

\* The profile workspace of the login was deactivated.
LoginDeactivated(i) ==
    /\ logins[i].active
    /\ logins' = [logins EXCEPT ![i].active = FALSE]
    /\ UNCHANGED <<aliasIndex, requests, changing, asked, aliasFaults>>

\* InitiateSetLoginAlias: the alias is checked later, by the projector.
InitiateSetLoginAlias(x, alias) ==
    LET i == CDocLogin(x)
    IN /\ i # 0 /\ ~logins[i].inProc
       /\ asked < MaxChanges /\ asked' = asked + 1
       /\ logins' = [logins EXCEPT ![i].inProc = TRUE]
       /\ requests' = [requests EXCEPT ![x] = Append(@, alias)]
    /\ UNCHANGED <<aliasIndex, changing, aliasFaults>>

-----------------------------------------------------------------------------
(***************************************************************************)
(* The projector ApplySetLoginAlias, for the logins with the name x.       *)
(***************************************************************************)
Wanted(x) == Head(requests[x])

Calls(old, new) ==
    (IF new \in {old, NoIdentifier} THEN <<>> ELSE <<"put">>)
    \o (IF old \in {new, NoIdentifier} THEN <<>> ELSE <<"deactivate">>)
    \o <<"commit", "save">>

\* The event is tried again as long as there is no such login.
ApplySetLoginAlias(x) ==
    LET i == CDocLogin(x)
    IN /\ requests[x] # <<>> /\ changing[x] = NotChanging /\ i # 0
       /\ changing' = [changing EXCEPT ![x] =
              [calls |-> Calls(logins[i].alias, Wanted(x)), login |-> i,
               old |-> logins[i].alias]]
    /\ UNCHANGED <<logins, aliasIndex, requests, asked, aliasFaults>>

At(x, c) == changing[x].calls # <<>> /\ Head(changing[x].calls) = c

Answered(x) == changing' = [changing EXCEPT ![x].calls = Tail(@)]

\* The projector writes AliasError and is done with the event.
Refused(x) == changing' = [changing EXCEPT ![x].calls = <<"error", "save">>]

Fault == aliasFaults < MaxAliasFaults /\ aliasFaults' = aliasFaults + 1

PutLoginAliasIndex(x) ==
    LET owner == changing[x].login
        row   == [aliasIndex EXCEPT ![Wanted(x)] = [active |-> TRUE, login |-> owner]]
    IN /\ At(x, "put")
       /\ \/ /\ IdentifierAvailable(Wanted(x), owner)
             /\ aliasIndex' = row
             /\ \/ Answered(x) /\ UNCHANGED aliasFaults
                \/ Refused(x) /\ Fault
          \/ /\ ~IdentifierAvailable(Wanted(x), owner)
             /\ Refused(x)
             /\ UNCHANGED <<aliasIndex, aliasFaults>>
    /\ UNCHANGED <<logins, requests, asked>>

OwnAlias(x) == /\ aliasIndex[changing[x].old].active
               /\ aliasIndex[changing[x].old].login = changing[x].login

DeactivateLoginAliasIndex(x) ==
    /\ At(x, "deactivate")
    /\ \/ /\ OwnAlias(x)
          /\ aliasIndex' = [aliasIndex EXCEPT ![changing[x].old].active = FALSE]
          /\ \/ Answered(x) /\ UNCHANGED aliasFaults
             \/ Refused(x) /\ Fault
       \/ /\ ~aliasIndex[changing[x].old].active
          /\ Answered(x)
          /\ UNCHANGED <<aliasIndex, aliasFaults>>
       \/ /\ aliasIndex[changing[x].old].active /\ ~OwnAlias(x)
          /\ Refused(x)
          /\ UNCHANGED <<aliasIndex, aliasFaults>>
    /\ UNCHANGED <<logins, requests, asked>>

\* The call fails without effect.
IndexCallFails(x) ==
    /\ At(x, "put") \/ At(x, "deactivate")
    /\ Refused(x) /\ Fault
    /\ UNCHANGED <<logins, aliasIndex, requests, asked>>

UpdateSourceLogin(x, login) ==
    /\ logins' = [logins EXCEPT ![changing[x].login] = login]
    /\ UNCHANGED <<aliasIndex, requests, asked>>

\* A commit that is not answered is followed by the error, if that can be
\* written, and by another attempt.
CommitAlias(x) ==
    LET login == [logins[changing[x].login] EXCEPT
                      !.alias = Wanted(x), !.inProc = FALSE, !.error = FALSE]
    IN /\ At(x, "commit")
       /\ UpdateSourceLogin(x, login)
       /\ \/ Answered(x) /\ UNCHANGED aliasFaults
          \/ changing' = [changing EXCEPT ![x].calls = <<"error">>] /\ Fault

\* The error of an index call ends the event, that of a commit does not.
WriteAliasError(x) ==
    /\ At(x, "error")
    /\ UpdateSourceLogin(x, [logins[changing[x].login] EXCEPT !.inProc = FALSE, !.error = TRUE])
    /\ IF Len(changing[x].calls) = 1 THEN changing' = [changing EXCEPT ![x] = NotChanging]
                                     ELSE Answered(x)
    /\ UNCHANGED aliasFaults

CommitFails(x) ==
    /\ At(x, "commit") /\ Fault
    /\ changing' = [changing EXCEPT ![x].calls = <<"error">>]
    /\ UNCHANGED <<logins, aliasIndex, requests, asked>>

AliasChangeDone(x) ==
    /\ At(x, "save")
    /\ requests' = [requests EXCEPT ![x] = Tail(@)]
    /\ changing' = [changing EXCEPT ![x] = NotChanging]
    /\ UNCHANGED <<logins, aliasIndex, asked, aliasFaults>>

\* The process dies, a write of AliasError or of the position fails.
ProjectorStartsAgain(x) ==
    /\ changing[x] # NotChanging /\ Fault
    /\ changing' = [changing EXCEPT ![x] = NotChanging]
    /\ UNCHANGED <<logins, aliasIndex, requests, asked>>

LoginAliasNext ==
    \/ \E i \in DOMAIN logins : LoginDeactivated(i)
    \/ \E x \in Identifiers :
          \/ CreateLogin(x)
          \/ \E alias \in Identifiers \union {NoIdentifier} : InitiateSetLoginAlias(x, alias)
          \/ ApplySetLoginAlias(x) \/ PutLoginAliasIndex(x) \/ DeactivateLoginAliasIndex(x)
          \/ IndexCallFails(x) \/ CommitAlias(x) \/ CommitFails(x) \/ WriteAliasError(x)
          \/ AliasChangeDone(x) \/ ProjectorStartsAgain(x)

LoginAliasSpec == LoginAliasInit /\ [][LoginAliasNext]_aliasVars

-----------------------------------------------------------------------------
\* Logins that IssuePrincipalToken can find by an identifier: by the name, or
\* by a row whose Login is active and has the identifier for its alias.
ByName(x)  == {i \in DOMAIN logins : logins[i].active /\ logins[i].name = x}
ByAlias(x) == {i \in DOMAIN logins : /\ aliasIndex[x].active /\ aliasIndex[x].login = i
                                     /\ logins[i].active /\ logins[i].alias = x}

\* "Alias and primary login share the same uniqueness namespace": an identifier
\* leads to one login at most, whatever was created, deactivated, replaced or
\* taken over at the same time and whichever calls failed half-way.
IdentifiersAreUnambiguous ==
    \A x \in Identifiers : \A i, j \in ByName(x) \union ByAlias(x) : i = j

\* The alias of a login at rest is an active alias of that login.
SettledAliasIsActive ==
    \A i \in DOMAIN logins :
        /\ logins[i].active /\ ~logins[i].inProc /\ ~logins[i].error
        /\ requests[logins[i].name] = <<>> /\ logins[i].alias # NoIdentifier
        => i \in ByAlias(logins[i].alias)
=============================================================================
