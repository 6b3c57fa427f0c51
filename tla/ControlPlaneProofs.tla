------------------------- MODULE ControlPlaneProofs --------------------------
(***************************************************************************)
(* Proofs about five components of the control plane: the credentials of a *)
(* vault, the queue of environment work, the budget of a Session, the      *)
(* schedule of a Deployment, the live stream of a Session.  Each has an    *)
(* inductive invariant, one step per action that keeps it, and the theorem *)
(* that the property the runs check follows.  The last section puts them   *)
(* beside the catalog and the lists of the API and proves, for the         *)
(* composition the run checks, all of its properties together.             *)
(***************************************************************************)
EXTENDS MCControlPlane, CatalogProofs, FiniteSetTheorems, SequenceTheorems,
    WellFoundedInduction, TLAPS

-----------------------------------------------------------------------------
(* Vault                                                                   *)

\* a grant and how often it has been refreshed
Token == Nat \X Nat

\* a stored credential, and a resolver
CredType == [state : {"absent", "active", "archived", "deleted"}, access : Token,
             refresh : Token, expired : BOOLEAN]
Pcs == {"idle", "exchange", "persist", "reload", "done", "failed"}
CredRefs == {NoToken} \cup {<<c>> : c \in Creds}
ResolverType == [pc : Pcs, cred : CredRefs, used : Token, got : Token]

\* what the variables hold
VaultTyped ==
    /\ grants \in 0..MaxGrants
    /\ cred \in [Creds -> CredType]
    /\ installed \in [Creds -> [access : Nat, refresh : Nat]]
    /\ endpoint \in [1..MaxGrants -> Nat]
    /\ resolver \in [Resolvers -> ResolverType]

\* a refresh token that is there is of an installed grant
RefreshNamesItsGrant ==
    \A c \in Creds : cred[c].refresh # NoToken => cred[c].refresh[1] \in 1..grants

\* a resolver between its read and its write knows the credential and the grant of
\* the token it used, and what the endpoint answered is of that grant
ExchangeKnowsItsGrant ==
    \A r \in Resolvers :
        /\ resolver[r].pc \in {"exchange", "persist", "reload"}
             => \E c \in Creds : resolver[r].cred = <<c>>
        /\ resolver[r].pc \in {"exchange", "persist"}
             => resolver[r].used[1] \in 1..grants
        /\ resolver[r].pc = "persist" => resolver[r].got[1] = resolver[r].used[1]

\* one credential of the vault at most is active
OneActive == \A c, d \in Creds : Active(c) /\ Active(d) => c = d

\* the inductive invariant of the vault
VaultInv == /\ VaultTyped /\ RefreshNamesItsGrant /\ ExchangeKnowsItsGrant
            /\ ClientRotationWins /\ OneActive

\* The empty values are of their types.
LEMMA VaultValues ==
    /\ NoToken \in Token /\ IdleResolver \in ResolverType
    /\ \A s \in {"absent", "active", "archived", "deleted"} : Erased(s) \in CredType
<1>1. NoToken \in Token /\ NoToken \in CredRefs
  BY DEF NoToken, Token, CredRefs
<1> QED
  BY <1>1 DEF IdleResolver, ResolverType, Pcs, Erased, CredType

\* An answer changes the resolver's program counter and token alone.
LEMMA Answered ==
    ASSUME VaultTyped, NEW r \in Resolvers, NEW pc \in Pcs, NEW t \in Token, Answer(r, pc, t)
    PROVE  /\ resolver' \in [Resolvers -> ResolverType]
           /\ \A q \in Resolvers : q # r => resolver'[q] = resolver[q]
           /\ resolver'[r].pc = pc /\ resolver'[r].got = t
           /\ resolver'[r].cred = resolver[r].cred /\ resolver'[r].used = resolver[r].used
  BY DEF Answer, VaultTyped, ResolverType

\* A vault without credentials satisfies the invariant.
LEMMA VaultInitInv == VaultInit => VaultInv
<1> SUFFICES ASSUME VaultInit PROVE VaultInv
  OBVIOUS
<1>1. VaultTyped
  BY VaultAssumption, VaultValues DEF VaultTyped, VaultInit
<1>2. \A c \in Creds : cred[c].state = "absent" /\ cred[c].access = NoToken /\ cred[c].refresh = NoToken
  BY DEF VaultInit, Erased
<1>3. \A r \in Resolvers : resolver[r].pc = "idle"
  BY DEF VaultInit, IdleResolver
<1> QED BY <1>1, <1>2, <1>3 DEF VaultInv, RefreshNamesItsGrant, ExchangeKnowsItsGrant,
                                ClientRotationWins, OneActive, Active

\* Every operation of the vault and of the resolvers keeps the invariant.  The
\* interesting one is PersistOAuthRefresh: RefreshApplies compares the stored
\* refresh token with the one that was exchanged, so the token it writes is of
\* the grant that is stored, never of one a client has replaced.
LEMMA VaultStep == VaultInv /\ [VaultNext]_vaultVars => VaultInv'
<1> SUFFICES ASSUME VaultInv, [VaultNext]_vaultVars PROVE VaultInv'
  OBVIOUS
<1> USE VaultAssumption, VaultValues DEF VaultInv, VaultTyped
<1>1. ASSUME NEW c \in Creds, CreateCredential(c) PROVE VaultInv'
  <2>1. VaultTyped'
    <3>1. grants' \in 0..MaxGrants /\ <<grants', 0>> \in Token
      BY <1>1 DEF CreateCredential, NewGrant, Token
    <3>2. cred' \in [Creds -> CredType]
      BY <1>1, <3>1 DEF CreateCredential, CredType
    <3>3. installed' \in [Creds -> [access : Nat, refresh : Nat]]
      BY <1>1, <3>1 DEF CreateCredential
    <3> QED BY <1>1, <3>1, <3>2, <3>3 DEF CreateCredential
  <2>2. /\ \A d \in Creds : d # c => cred'[d] = cred[d] /\ installed'[d] = installed[d]
       /\ cred'[c].state = "active" /\ cred'[c].access = <<grants', 0>> /\ cred'[c].refresh = <<grants', 0>>
       /\ installed'[c].access = grants' /\ installed'[c].refresh = grants'
    BY <1>1 DEF CreateCredential, NewGrant, CredType
  <2>3. RefreshNamesItsGrant' /\ ExchangeKnowsItsGrant'
    BY <1>1, <2>2 DEF CreateCredential, NewGrant, RefreshNamesItsGrant, ExchangeKnowsItsGrant, NoToken
  <2>4. ClientRotationWins' /\ OneActive'
    BY <1>1, <2>2 DEF CreateCredential, NewGrant, ClientRotationWins, OneActive, Active, NoToken
  <2> QED BY <2>1, <2>3, <2>4
<1>2. ASSUME NEW c \in Creds, ArchiveCredential(c) PROVE VaultInv'
  <2>1. VaultTyped'
    BY <1>2 DEF ArchiveCredential, Erased, CredType, Token
  <2>2. /\ \A d \in Creds : d # c => cred'[d] = cred[d] /\ installed'[d] = installed[d]
       /\ cred'[c].state = "archived" /\ cred'[c].access = NoToken /\ cred'[c].refresh = NoToken
       /\ installed' = installed
    BY <1>2 DEF ArchiveCredential, Erased, CredType
  <2>3. RefreshNamesItsGrant' /\ ExchangeKnowsItsGrant'
    BY <1>2, <2>2 DEF ArchiveCredential, Erased, RefreshNamesItsGrant, ExchangeKnowsItsGrant, NoToken
  <2>4. ClientRotationWins' /\ OneActive'
    BY <1>2, <2>2 DEF ArchiveCredential, Erased, ClientRotationWins, OneActive, Active, NoToken
  <2> QED BY <2>1, <2>3, <2>4
<1>3. ASSUME NEW c \in Creds, DeleteCredential(c) PROVE VaultInv'
  <2>1. VaultTyped'
    BY <1>3 DEF DeleteCredential, Erased, CredType, Token
  <2>2. /\ \A d \in Creds : d # c => cred'[d] = cred[d] /\ installed'[d] = installed[d]
       /\ cred'[c].state = "deleted" /\ cred'[c].access = NoToken /\ cred'[c].refresh = NoToken
       /\ installed' = installed
    BY <1>3 DEF DeleteCredential, Erased, CredType
  <2>3. RefreshNamesItsGrant' /\ ExchangeKnowsItsGrant'
    BY <1>3, <2>2 DEF DeleteCredential, Erased, RefreshNamesItsGrant, ExchangeKnowsItsGrant, NoToken
  <2>4. ClientRotationWins' /\ OneActive'
    BY <1>3, <2>2 DEF DeleteCredential, Erased, ClientRotationWins, OneActive, Active, NoToken
  <2> QED BY <2>1, <2>3, <2>4
<1>4. ASSUME NEW c \in Creds, Expire(c) PROVE VaultInv'
  <2>1. VaultTyped'
    <3>1. cred' \in [Creds -> CredType]
      BY <1>4 DEF Expire, CredType
    <3> QED BY <1>4, <3>1 DEF Expire
  <2>2. /\ \A d \in Creds : d # c => cred'[d] = cred[d] /\ installed'[d] = installed[d]
       /\ cred'[c].state = "active" /\ cred'[c].access = cred[c].access /\ cred'[c].refresh = cred[c].refresh
       /\ installed' = installed
    BY <1>4 DEF Expire, Active, CredType
  <2>3. RefreshNamesItsGrant' /\ ExchangeKnowsItsGrant'
    BY <1>4, <2>2 DEF Expire, Active, RefreshNamesItsGrant, ExchangeKnowsItsGrant, NoToken
  <2>4. ClientRotationWins' /\ OneActive'
    BY <1>4, <2>2 DEF Expire, Active, ClientRotationWins, OneActive, Active, NoToken
  <2> QED BY <2>1, <2>3, <2>4
<1>5. ASSUME NEW c \in Creds, NEW refresh \in {"kept", "new", "removed"}, UpdateCredential(c, refresh)
      PROVE  VaultInv'
  <2>1. grants' = grants + 1 /\ grants' \in 0..MaxGrants /\ cred[c].state = "active"
    BY <1>5 DEF UpdateCredential, NewGrant, Active
  <2>2. cred[c].refresh \in Token /\ installed[c].refresh \in Nat
    BY DEF CredType
  <2>3. PICK tok \in Token, ins \in Nat :
          /\ tok[1] = ins /\ (tok # NoToken => tok[1] \in 1..grants')
          /\ cred' = [cred EXCEPT ![c].access = <<grants', 0>>, ![c].expired = FALSE, ![c].refresh = tok]
          /\ installed' = [installed EXCEPT ![c].access = grants', ![c].refresh = ins]
    <3>1. CASE refresh = "kept"
      <4>1. /\ cred[c].refresh[1] = installed[c].refresh
            /\ cred[c].refresh # NoToken => cred[c].refresh[1] \in 1..grants'
        BY <2>1 DEF ClientRotationWins, RefreshNamesItsGrant, Active
      <4> QED BY <1>5, <2>2, <3>1, <4>1 DEF UpdateCredential
    <3>2. CASE refresh = "new"
      <4>1. <<grants', 0>> \in Token /\ <<grants', 0>>[1] = grants' /\ grants' \in 1..grants' /\ grants' \in Nat
        BY <2>1 DEF Token
      <4> QED BY <1>5, <3>2, <4>1 DEF UpdateCredential
    <3>3. CASE refresh = "removed"
      <4>1. NoToken[1] = 0
        BY DEF NoToken
      <4> QED BY <1>5, <3>3, <4>1 DEF UpdateCredential
    <3> QED BY <3>1, <3>2, <3>3
  <2>4. /\ cred' \in [Creds -> CredType]
        /\ \A d \in Creds : d # c => cred'[d] = cred[d]
        /\ cred'[c].state = cred[c].state /\ cred'[c].access = <<grants', 0>> /\ cred'[c].refresh = tok
    <3>1. <<grants', 0>> \in Token
      BY <2>1 DEF Token
    <3> QED BY <2>3, <3>1 DEF CredType
  <2>5. /\ installed' \in [Creds -> [access : Nat, refresh : Nat]]
        /\ \A d \in Creds : d # c => installed'[d] = installed[d]
        /\ installed'[c].access = grants' /\ installed'[c].refresh = ins
    <3>1. installed \in [Creds -> [access : Nat, refresh : Nat]] /\ grants' \in Nat /\ ins \in Nat
      BY <2>1
    <3>2. installed' = [installed EXCEPT ![c].access = grants', ![c].refresh = ins]
      BY <2>3
    <3> HIDE DEF VaultInv
    <3>3. installed' \in [Creds -> [access : Nat, refresh : Nat]]
      BY <3>1, <3>2
    <3>4. /\ \A d \in Creds : d # c => installed'[d] = installed[d]
          /\ installed'[c].access = grants' /\ installed'[c].refresh = ins
      BY <3>1, <3>2
    <3> QED BY <3>3, <3>4
  <2>6. RefreshNamesItsGrant'
    <3> SUFFICES ASSUME NEW d \in Creds, cred'[d].refresh # NoToken
                 PROVE  cred'[d].refresh[1] \in 1..grants'
      BY DEF RefreshNamesItsGrant, NoToken
    <3>1. CASE d = c
      BY <2>3, <2>4, <3>1
    <3>2. CASE d # c
      BY <2>1, <2>4, <3>2 DEF RefreshNamesItsGrant
    <3> QED BY <3>1, <3>2
  <2>7. ExchangeKnowsItsGrant'
    BY <1>5, <2>1 DEF UpdateCredential, ExchangeKnowsItsGrant
  <2>8. ClientRotationWins' /\ OneActive'
    BY <2>1, <2>3, <2>4, <2>5 DEF ClientRotationWins, OneActive, Active
  <2> QED BY <1>5, <2>1, <2>4, <2>5, <2>6, <2>7, <2>8 DEF UpdateCredential
<1>6. ASSUME NEW c \in Creds, NEW r \in Resolvers, NEW rejected \in BOOLEAN,
             LoadOAuthCredential(r, c, rejected)
      PROVE  VaultInv'
  <2>1. <<c>> \in CredRefs /\ cred[c].access \in Token /\ cred[c].refresh \in Token
    BY DEF CredRefs, CredType
  <2>2. /\ resolver' \in [Resolvers -> ResolverType]
        /\ \A q \in Resolvers : q # r => resolver'[q] = resolver[q]
        /\ resolver'[r].cred = <<c>>
        /\ \/ resolver'[r].pc = "done"
           \/ resolver'[r].pc = "exchange" /\ resolver'[r].used = cred[c].refresh /\ cred[c].refresh # NoToken
    <3>1. CASE resolver' = [resolver EXCEPT ![r].pc = "done", ![r].cred = <<c>>, ![r].got = cred[c].access]
      BY <2>1, <3>1 DEF ResolverType, Pcs
    <3>2. CASE /\ resolver' = [resolver EXCEPT ![r].pc = "exchange", ![r].cred = <<c>>,
                                              ![r].used = cred[c].refresh]
               /\ cred[c].refresh # NoToken
      BY <2>1, <3>2 DEF ResolverType, Pcs
    <3> QED BY <1>6, <3>1, <3>2 DEF LoadOAuthCredential
  <2>3. ExchangeKnowsItsGrant'
    BY <1>6, <2>2 DEF LoadOAuthCredential, ExchangeKnowsItsGrant, RefreshNamesItsGrant
  <2> QED
    BY <1>6, <2>2, <2>3 DEF LoadOAuthCredential, RefreshNamesItsGrant, ClientRotationWins, OneActive, Active
<1>7. ASSUME ArchiveVault PROVE VaultInv'
  <2>1. VaultTyped'
    BY <1>7 DEF ArchiveVault
  <2>2. \A c \in Creds : \/ ~Active(c) /\ cred'[c] = cred[c]
                         \/ cred'[c].state = "archived" /\ cred'[c].access = NoToken /\ cred'[c].refresh = NoToken
    BY <1>7 DEF ArchiveVault, Erased
  <2>3. RefreshNamesItsGrant' /\ ExchangeKnowsItsGrant'
    BY <1>7, <2>2 DEF ArchiveVault, RefreshNamesItsGrant, ExchangeKnowsItsGrant
  <2>4. ClientRotationWins' /\ OneActive'
    BY <1>7, <2>2 DEF ArchiveVault, ClientRotationWins, OneActive, Active
  <2> QED BY <2>1, <2>3, <2>4
<1>8. ASSUME NEW r \in Resolvers, Refresh(r) PROVE VaultInv'
  <2> DEFINE g == resolver[r].used[1]
  <2>1. g \in 1..MaxGrants /\ <<g, endpoint[g] + 1>> \in Token
    BY <1>8 DEF Refresh, ExchangeKnowsItsGrant, Token
  <2>2. CASE Answer(r, "persist", <<g, endpoint[g] + 1>>) /\ endpoint' = [endpoint EXCEPT ![g] = @ + 1]
    <3>1. /\ resolver' \in [Resolvers -> ResolverType]
          /\ \A q \in Resolvers : q # r => resolver'[q] = resolver[q]
          /\ resolver'[r].got = <<g, endpoint[g] + 1>>
          /\ resolver'[r].cred = resolver[r].cred /\ resolver'[r].used = resolver[r].used
      BY <2>1, <2>2, Answered DEF Pcs
    <3>2. endpoint' \in [1..MaxGrants -> Nat]
      BY <2>1, <2>2
    <3>3. ExchangeKnowsItsGrant'
      <4>1. grants' = grants /\ resolver[r].pc = "exchange" /\ resolver'[r].got[1] = g
        BY <1>8, <3>1 DEF Refresh
      <4> QED BY <3>1, <4>1 DEF ExchangeKnowsItsGrant
    <3> QED
      BY <1>8, <3>1, <3>2, <3>3 DEF Refresh, RefreshNamesItsGrant, ClientRotationWins, OneActive, Active
  <2>3. CASE Answer(r, "failed", NoToken) /\ UNCHANGED endpoint
    <3>1. /\ resolver' \in [Resolvers -> ResolverType]
          /\ \A q \in Resolvers : q # r => resolver'[q] = resolver[q]
          /\ resolver'[r].pc = "failed"
      BY <2>3, Answered DEF Pcs
    <3> QED
      BY <1>8, <2>3, <3>1 DEF Refresh, ExchangeKnowsItsGrant, RefreshNamesItsGrant,
                              ClientRotationWins, OneActive, Active
  <2> QED BY <1>8, <2>2, <2>3 DEF Refresh
<1>9. ASSUME NEW r \in Resolvers, PersistOAuthRefresh(r) PROVE VaultInv'
  <2>1. PICK c \in Creds : resolver[r].cred = <<c>>
    BY <1>9 DEF PersistOAuthRefresh, ExchangeKnowsItsGrant
  <2> DEFINE got == resolver[r].got
  <2>2. got \in Token /\ got[1] = resolver[r].used[1] /\ got[1] \in 1..grants
    BY <1>9 DEF PersistOAuthRefresh, ExchangeKnowsItsGrant, ResolverType
  <2>3. CASE RefreshApplies(r, c)
    <3>1. /\ cred' = [cred EXCEPT ![c].access = got, ![c].expired = FALSE,
                                  ![c].refresh = IF Rotates THEN got ELSE @]
          /\ Answer(r, "done", got)
      <4>1. resolver[r].cred[1] = c
        BY <2>1
      <4> QED BY <1>9, <4>1, <2>3 DEF PersistOAuthRefresh
    <3>2. cred' \in [Creds -> CredType]
      <4>1. PICK tok \in Token : cred' = [cred EXCEPT ![c].access = got, ![c].expired = FALSE,
                                                     ![c].refresh = tok]
        <5>1. CASE Rotates
          BY <2>2, <3>1, <5>1
        <5>2. CASE ~Rotates
          <6>1. cred[c].refresh \in Token
            BY DEF CredType
          <6> QED BY <3>1, <5>2, <6>1
        <5> QED BY <5>1, <5>2
      <4> QED BY <2>2, <4>1 DEF CredType
    <3>3. /\ \A d \in Creds : d # c => cred'[d] = cred[d]
          /\ cred'[c].state = cred[c].state /\ cred'[c].access = got
          /\ cred'[c].refresh = IF Rotates THEN got ELSE cred[c].refresh
      BY <3>1 DEF CredType
    <3>4. /\ resolver' \in [Resolvers -> ResolverType]
          /\ \A q \in Resolvers : q # r => resolver'[q] = resolver[q]
          /\ resolver'[r].pc = "done"
      BY <2>2, <3>1, Answered DEF Pcs
    <3>5. ExchangeKnowsItsGrant'
      BY <1>9, <3>4 DEF PersistOAuthRefresh, ExchangeKnowsItsGrant
    <3>6. cred[c].state = "active" /\ got[1] = cred[c].refresh[1]
      BY <2>2, <2>3 DEF RefreshApplies, Active
    <3>7. RefreshNamesItsGrant'
      BY <1>9, <2>2, <3>3 DEF PersistOAuthRefresh, RefreshNamesItsGrant
    <3>8. ClientRotationWins' /\ OneActive'
      <4>1. installed' = installed
        BY <1>9 DEF PersistOAuthRefresh
      <4>2. cred'[c].refresh[1] = cred[c].refresh[1] /\ cred'[c].access[1] = cred[c].refresh[1]
        BY <3>3, <3>6
      <4> QED BY <3>3, <3>6, <4>1, <4>2 DEF ClientRotationWins, OneActive, Active
    <3> QED BY <1>9, <3>2, <3>4, <3>5, <3>7, <3>8 DEF PersistOAuthRefresh
  <2>4. CASE ~RefreshApplies(r, c)
    <3>1. Answer(r, "reload", NoToken) /\ UNCHANGED cred
      BY <1>9, <2>1, <2>4 DEF PersistOAuthRefresh
    <3>2. /\ resolver' \in [Resolvers -> ResolverType]
          /\ \A q \in Resolvers : q # r => resolver'[q] = resolver[q]
          /\ resolver'[r].pc = "reload" /\ resolver'[r].cred = <<c>>
      BY <2>1, <3>1, Answered DEF Pcs
    <3> QED
      BY <1>9, <3>1, <3>2 DEF PersistOAuthRefresh, ExchangeKnowsItsGrant, RefreshNamesItsGrant,
                              ClientRotationWins, OneActive, Active
  <2> QED BY <2>3, <2>4
<1>10. ASSUME NEW r \in Resolvers, ReloadCredential(r) \/ Abandon(r) PROVE VaultInv'
  <2>1. UNCHANGED <<vaultArchived, cred, grants, installed, endpoint>>
    BY <1>10 DEF ReloadCredential, Abandon
  <2>2. \E pc \in {"done", "failed"}, t \in Token : Answer(r, pc, t)
    <3>1. CASE Abandon(r)
      BY <3>1 DEF Abandon
    <3>2. CASE ReloadCredential(r)
      <4>1. PICK c \in Creds : resolver[r].cred = <<c>>
        BY <3>2 DEF ReloadCredential, ExchangeKnowsItsGrant
      <4>2. cred[c].access \in Token /\ resolver[r].cred[1] = c
        BY <4>1 DEF CredType
      <4> QED BY <3>2, <4>2 DEF ReloadCredential
    <3> QED BY <1>10, <3>1, <3>2
  <2>3. /\ resolver' \in [Resolvers -> ResolverType]
        /\ \A q \in Resolvers : q # r => resolver'[q] = resolver[q]
        /\ resolver'[r].pc \in {"done", "failed"}
    BY <2>2, Answered DEF Pcs
  <2> QED
    BY <2>1, <2>3 DEF ExchangeKnowsItsGrant, RefreshNamesItsGrant,
                      ClientRotationWins, OneActive, Active
<1>11. ASSUME NEW r \in Resolvers, NextCall(r) PROVE VaultInv'
  <2>1. /\ resolver' \in [Resolvers -> ResolverType]
        /\ \A q \in Resolvers : q # r => resolver'[q] = resolver[q]
        /\ resolver'[r].pc = "idle"
    BY <1>11 DEF NextCall, IdleResolver
  <2> QED
    BY <1>11, <2>1 DEF NextCall, ExchangeKnowsItsGrant, RefreshNamesItsGrant,
                       ClientRotationWins, OneActive, Active
<1>12. CASE UNCHANGED vaultVars
  BY <1>12 DEF vaultVars, Active, RefreshNamesItsGrant, ExchangeKnowsItsGrant,
               ClientRotationWins, OneActive
<1> QED
  BY <1>1, <1>2, <1>3, <1>4, <1>5, <1>6, <1>7, <1>8, <1>9, <1>10, <1>11, <1>12 DEF VaultNext

\* One credential at most is active, counted.
LEMMA VaultInvTypeOK == VaultInv => VaultTypeOK
<1> SUFFICES ASSUME VaultInv PROVE VaultTypeOK
  OBVIOUS
<1> DEFINE A == {c \in Creds : Active(c)}
<1>1. Cardinality(A) <= 1
  <2>1. CASE A = {}
    BY <2>1, FS_EmptySet
  <2>2. CASE A # {}
    <3>1. PICK c \in A : TRUE
      BY <2>2
    <3>2. A = {c}
      BY <3>1 DEF VaultInv, OneActive
    <3> QED BY <3>2, FS_Singleton
  <2> QED BY <2>1, <2>2
<1> QED BY <1>1 DEF VaultInv, VaultTyped, VaultTypeOK, ResolverType, Pcs

\* The tokens of an active credential are of the grants the client installed
\* last (PersistOAuthRefresh never writes over a rotation), and one credential at
\* most is active, for every number of credentials, resolvers and grants.
THEOREM RotationWins == VaultSpec => [](ClientRotationWins /\ VaultTypeOK)
<1>1. VaultInit => VaultInv
  BY VaultInitInv
<1>2. VaultInv /\ [VaultNext]_vaultVars => VaultInv'
  BY VaultStep
<1>3. VaultInv => ClientRotationWins /\ VaultTypeOK
  BY VaultInvTypeOK DEF VaultInv
<1> QED BY <1>1, <1>2, <1>3, PTL DEF VaultSpec

-----------------------------------------------------------------------------
(* Environment work                                                        *)

\* Min of a non-empty set of naturals is its least element.
LEMMA MinIsLeast ==
    ASSUME NEW S \in SUBSET Nat, S # {}
    PROVE  Min(S) \in S /\ \A x \in S : Min(S) <= x
<1> DEFINE R == {p \in Nat \X Nat : p[1] < p[2]}
<1>1. IsWellFoundedOn(R, Nat)
  BY NatLessThanWellFounded, Zenon DEF OpToRel
<1>2. PICK m \in S : \A x \in S : <<x, m>> \notin R
  <2> HIDE DEF R
  <2> QED BY <1>1, WFMin
<1>3. \A x \in S : m <= x
  <2> TAKE x \in S
  <2>1. <<x, m>> \in Nat \X Nat /\ <<x, m>>[1] = x /\ <<x, m>>[2] = m
    OBVIOUS
  <2>2. ~(<<x, m>>[1] < <<x, m>>[2])
    BY <1>2, <2>1, Zenon
  <2> QED BY <2>1, <2>2
<1> QED BY <1>3 DEF Min

\* an item of the queue, and what a runner knows of the one it took
WorkType == [state : {"none", "queued", "starting", "active", "stopping", "stopped"},
             activation : Nat, polled : Nat, acked : Nat, heartbeat : Nat, stopRequested : Nat]
RunnerType == [item : Nat, phase : {"none", "polled", "acked", "leased"}, expected : Nat, lease : Nat]

\* what the variables hold
WorkTyped ==
    /\ workNow \in Nat \ {0} /\ workSeq \in Nat /\ workOpen \subseteq Nat
    /\ work \in [WorkIds -> WorkType] /\ runner \in [Runners -> RunnerType]
    /\ admitting \in [seq : Nat, inserts : BOOLEAN]

\* an item that may still be executed, and one that somebody may be executing
Live(i) == work[i].state \in {"queued", "starting", "active"}
Busy(i) == work[i].state \in {"starting", "active", "stopping"}

\* one item is live, one is being executed or wound up, and an item that was
\* handed out waits for nobody
OneAtATime ==
    \A i, j \in WorkIds :
        /\ Live(i) /\ Live(j) => i = j
        /\ Busy(i) /\ Busy(j) => i = j
        /\ work[i].state = "queued" /\ work[i].polled # 0 => ~Busy(j)

\* a stop is requested after the last heartbeat, and once for all
StopIsLast ==
    \A i \in WorkIds :
        /\ work[i].heartbeat <= workNow
        /\ work[i].stopRequested # 0 => work[i].state \in {"stopping", "stopped"}
        /\ work[i].state = "stopping" => work[i].heartbeat <= work[i].stopRequested

\* an item taken by force has been stopped
ForcedIsStopped == \A i \in forced : i \in WorkIds /\ work[i].state = "stopped"

\* a lease is the heartbeat it was granted with; while it runs the item is still
\* the worker's, unless it was taken by force
LeaseIsHeartbeat ==
    \A r \in Runners :
        /\ runner[r].phase # "none" => runner[r].item \in WorkIds
        /\ runner[r].phase \in {"polled", "acked"} => runner[r].expected = 0
        /\ runner[r].phase = "leased" =>
             /\ runner[r].expected \in 1..workNow /\ runner[r].lease = runner[r].expected + TTL
             /\ workNow <= runner[r].lease /\ runner[r].item \notin forced =>
                  /\ work[runner[r].item].state \in {"active", "stopping"}
                  /\ work[runner[r].item].heartbeat = runner[r].expected

\* no two runners hold a lease of one heartbeat
LeaseIsUnique ==
    \A r, s \in Runners :
        /\ runner[r].phase = "leased" /\ runner[s].phase = "leased"
        /\ runner[r].item = runner[s].item /\ runner[r].expected = runner[s].expected
        => r = s

\* an admission that queues an item found none live, none becomes live before it
\* commits, and an id is left for it
AdmissionWaits ==
    /\ admitting = NoAdmission \/ admitting.seq = workSeq + 1
    /\ admitting.inserts => /\ \A i \in WorkIds : ~Live(i)
                            /\ \E i \in WorkIds : work[i].state = "none"

\* the inductive invariant of the queue
WorkInv == /\ WorkTyped /\ OneAtATime /\ StopIsLast /\ ForcedIsStopped
           /\ LeaseIsHeartbeat /\ LeaseIsUnique /\ AdmissionWaits /\ ActivationKept

\* Without work items and with idle runners the invariant holds.
LEMMA WorkInitInv == WorkInit => WorkInv
<1> SUFFICES ASSUME WorkInit PROVE WorkInv
  OBVIOUS
<1>1. NoWork \in WorkType /\ NoRunner \in RunnerType
  BY DEF NoWork, NoRunner, WorkType, RunnerType
<1>2. /\ \A i \in WorkIds : work[i].state = "none" /\ work[i].heartbeat = 0 /\ work[i].stopRequested = 0
      /\ \A r \in Runners : runner[r].phase = "none"
  BY DEF WorkInit, NoWork, NoRunner
<1>3. WorkTyped
  BY <1>1 DEF WorkInit, WorkTyped, NoAdmission
<1>4. AdmissionWaits /\ ActivationKept
  BY DEF WorkInit, AdmissionWaits, ActivationKept, NoAdmission
<1> QED
  BY <1>2, <1>3, <1>4 DEF WorkInit, WorkInv, OneAtATime, Live, Busy, StopIsLast, ForcedIsStopped,
                    LeaseIsHeartbeat, LeaseIsUnique

\* InsertWork leaves the items alone when one is live, else it queues an item
\* under a free id.
LEMMA ItemInserted ==
    ASSUME NEW items \in [WorkIds -> WorkType], NEW seq \in Nat,
           \E k \in WorkIds : items[k].state = "none"
    PROVE  \/ LiveWork(items) # {} /\ InsertWork(items, seq) = items
           \/ /\ LiveWork(items) = {}
              /\ \E k \in WorkIds :
                   /\ items[k].state = "none"
                   /\ InsertWork(items, seq) =
                        [items EXCEPT ![k] = [NoWork EXCEPT !.state = "queued", !.activation = seq]]
<1> DEFINE free == {i \in WorkIds : items[i].state = "none"}
<1>1. free # {} /\ free \in SUBSET Nat
  BY EnvironmentWorkAssumption DEF WorkIds
<1>2. Min(free) \in free
  BY <1>1, MinIsLeast
<1> QED
  BY <1>1, <1>2 DEF InsertWork

\* A queued item as InsertWork makes it.
LEMMA QueuedItem ==
    ASSUME NEW seq \in Nat
    PROVE  LET q == [NoWork EXCEPT !.state = "queued", !.activation = seq]
           IN  /\ q \in WorkType /\ q.state = "queued" /\ q.activation = seq
               /\ q.polled = 0 /\ q.heartbeat = 0 /\ q.stopRequested = 0
  BY DEF NoWork, WorkType

\* What recovery may do to an item: nothing, stop a stopping one, or queue one
\* whose lease has run out.
LEMMA RecoveredItem ==
    ASSUME NEW w \in WorkType
    PROVE  /\ Recovered(w) \in WorkType
           /\ Recovered(w).activation = w.activation
           /\ Recovered(w).stopRequested = w.stopRequested
           /\ \/ Recovered(w) = w
              \/ /\ w.state = "stopping" /\ Elapsed(w.stopRequested)
                 /\ Recovered(w).state = "stopped" /\ Recovered(w).heartbeat = w.heartbeat
              \/ /\ w.state \in {"starting", "active"} /\ (w.state = "active" => Elapsed(w.heartbeat))
                 /\ Recovered(w).state = "queued" /\ Recovered(w).polled = 0
                 /\ Recovered(w).heartbeat = 0
<1>1. CASE w.state = "stopping" /\ Elapsed(w.stopRequested)
  <2>1. Recovered(w) = [w EXCEPT !.state = "stopped"]
    BY <1>1 DEF Recovered
  <2> QED BY <1>1, <2>1 DEF WorkType
<1>2. CASE \/ w.state = "starting" /\ Elapsed(w.acked)
           \/ w.state = "active" /\ Elapsed(w.heartbeat)
  <2>1. Recovered(w) = [w EXCEPT !.state = "queued", !.acked = 0, !.heartbeat = 0, !.polled = 0]
    BY <1>2 DEF Recovered
  <2>2. /\ Recovered(w) \in WorkType
        /\ Recovered(w).activation = w.activation /\ Recovered(w).stopRequested = w.stopRequested
        /\ Recovered(w).state = "queued" /\ Recovered(w).polled = 0 /\ Recovered(w).heartbeat = 0
    <3>1. PICK v : v = [w EXCEPT !.state = "queued", !.acked = 0, !.heartbeat = 0, !.polled = 0]
      OBVIOUS
    <3>2. v = [state |-> "queued", activation |-> w.activation, polled |-> 0, acked |-> 0,
               heartbeat |-> 0, stopRequested |-> w.stopRequested]
      BY <3>1 DEF WorkType
    <3>3. w.activation \in Nat /\ w.stopRequested \in Nat
      BY DEF WorkType
    <3>4. v \in WorkType
      BY <3>2, <3>3 DEF WorkType
    <3> QED BY <2>1, <3>1, <3>2, <3>4
  <2> QED BY <1>2, <2>2
<1>3. CASE /\ ~(w.state = "stopping" /\ Elapsed(w.stopRequested))
           /\ ~(w.state = "starting" /\ Elapsed(w.acked))
           /\ ~(w.state = "active" /\ Elapsed(w.heartbeat))
  <2>1. Recovered(w) = w
    BY <1>3 DEF Recovered
  <2> QED BY <2>1
<1> QED BY <1>1, <1>2, <1>3

\* An admission that has not committed shows nothing but itself.
LEMMA EnqueueStep == WorkInv /\ EnqueueEnvironmentWork => WorkInv'
<1> SUFFICES ASSUME WorkInv, EnqueueEnvironmentWork PROVE WorkInv'
  OBVIOUS
<1> USE DEF WorkInv
<1>1. /\ admitting' = [seq |-> workSeq + 1, inserts |-> LiveWork(work) = {}]
      /\ \E i \in WorkIds : work[i].state = "none"
      /\ UNCHANGED <<workNow, work, workSeq, workOpen, runner, forced, overtaken>>
  BY DEF EnqueueEnvironmentWork
<1>2. WorkTyped'
  BY <1>1 DEF WorkTyped
<1>3. AdmissionWaits'
  BY <1>1 DEF AdmissionWaits, Live, LiveWork
<1>4. OneAtATime' /\ StopIsLast' /\ ForcedIsStopped' /\ LeaseIsHeartbeat' /\ LeaseIsUnique'
  BY <1>1 DEF OneAtATime, Live, Busy, StopIsLast, ForcedIsStopped, LeaseIsHeartbeat, LeaseIsUnique
<1>5. ActivationKept'
  BY <1>1 DEF ActivationKept, Covered, LiveWork
<1> QED BY <1>2, <1>3, <1>4, <1>5

\* An admission that commits brings its item along, finds another one live, or
\* was overtaken by the Stop of the item it had found.
LEMMA CommitStep == WorkInv /\ CommitAdmission => WorkInv'
<1> SUFFICES ASSUME WorkInv, CommitAdmission PROVE WorkInv'
  OBVIOUS
<1> USE DEF WorkInv
<1>1. /\ workSeq' \in Nat /\ workOpen' \subseteq Nat /\ work \in [WorkIds -> WorkType]
      /\ admitting.seq \in Nat /\ admitting' = NoAdmission
      /\ admitting' \in [seq : Nat, inserts : BOOLEAN]
      /\ UNCHANGED <<workNow, runner, forced>>
  BY DEF CommitAdmission, WorkTyped, NoAdmission
<1>2. AdmissionWaits'
  BY <1>1 DEF AdmissionWaits, NoAdmission
<1>3. CASE ~admitting.inserts
  <2>1. /\ work' = work /\ workOpen' = workOpen \cup {admitting.seq}
        /\ overtaken' = IF LiveWork(work) = {} THEN overtaken \cup {admitting.seq} ELSE overtaken
    BY <1>3 DEF CommitAdmission
  <2>2. ActivationKept'
    BY <2>1 DEF ActivationKept, Covered, LiveWork
  <2> QED
    BY <1>1, <1>2, <2>1, <2>2 DEF WorkTyped, OneAtATime, Live, Busy, StopIsLast,
                       ForcedIsStopped, LeaseIsHeartbeat, LeaseIsUnique
<1>4. CASE admitting.inserts
  <2>1. LiveWork(work) = {} /\ \E i \in WorkIds : work[i].state = "none"
    BY <1>4 DEF AdmissionWaits, LiveWork, Live
  <2>2. work' = InsertWork(work, admitting.seq)
    BY <1>4 DEF CommitAdmission
  <2>3. PICK k \in WorkIds :
          /\ work[k].state = "none"
          /\ work' = [work EXCEPT ![k] = [NoWork EXCEPT !.state = "queued", !.activation = admitting.seq]]
    BY <1>1, <2>1, <2>2, ItemInserted
  <2>4. /\ work' \in [WorkIds -> WorkType]
        /\ \A i \in WorkIds : i # k => work'[i] = work[i]
        /\ work'[k].state = "queued" /\ work'[k].polled = 0 /\ work'[k].heartbeat = 0
        /\ work'[k].stopRequested = 0
    BY <1>1, <2>3, QueuedItem
  <2>5. WorkTyped'
    BY <1>1, <2>4 DEF WorkTyped
  <2>6. OneAtATime'
    BY <2>1, <2>3, <2>4 DEF OneAtATime, Live, Busy, LiveWork
  <2>7. StopIsLast' /\ ForcedIsStopped'
    BY <1>1, <2>3, <2>4 DEF StopIsLast, ForcedIsStopped, WorkTyped
  <2>8. LeaseIsHeartbeat'
    BY <1>1, <2>3, <2>4 DEF LeaseIsHeartbeat
  <2>9. LeaseIsUnique'
    BY <1>1 DEF LeaseIsUnique
  <2>10. ActivationKept'
    BY <2>4 DEF ActivationKept, Covered, LiveWork
  <2> QED BY <1>2, <2>5, <2>6, <2>7, <2>8, <2>9, <2>10
<1> QED BY <1>3, <1>4

\* A poll recovers the items whose lease has run out and hands one out.
LEMMA PollStep == ASSUME NEW r \in Runners, WorkInv, PollWork(r) PROVE WorkInv'
<1> USE DEF WorkInv
<1> DEFINE items == [i \in WorkIds |-> Recovered(work[i])]
           found == Candidates(items)
<1>1. /\ items \in [WorkIds -> WorkType]
      /\ \A i \in WorkIds :
           /\ items[i].activation = work[i].activation
           /\ items[i].stopRequested = work[i].stopRequested
           /\ \/ items[i] = work[i]
              \/ /\ work[i].state = "stopping" /\ Elapsed(work[i].stopRequested)
                 /\ items[i].state = "stopped" /\ items[i].heartbeat = work[i].heartbeat
              \/ /\ work[i].state \in {"starting", "active"}
                 /\ (work[i].state = "active" => Elapsed(work[i].heartbeat))
                 /\ items[i].state = "queued" /\ items[i].polled = 0 /\ items[i].heartbeat = 0
  <2>1. \A i \in WorkIds : work[i] \in WorkType /\ items[i] = Recovered(work[i])
    BY DEF WorkTyped
  <2> QED BY <2>1, RecoveredItem
<1> HIDE DEF items
\* the recovered items satisfy what the items did, and each takes the poll or not
<1>2. /\ work' \in [WorkIds -> WorkType]
      /\ \A i \in WorkIds :
           /\ work'[i].state = items[i].state /\ work'[i].activation = items[i].activation
           /\ work'[i].heartbeat = items[i].heartbeat /\ work'[i].stopRequested = items[i].stopRequested
           /\ \/ work'[i].polled = items[i].polled
              \/ \A j \in WorkIds : j # i => items[j].state \notin {"starting", "active", "stopping"}
      /\ \/ runner' = runner
         \/ \E k \in WorkIds : runner' = [runner EXCEPT ![r] = [NoRunner EXCEPT !.item = k, !.phase = "polled"]]
  <2>1. workNow \in Nat
    BY DEF WorkTyped
  <2>2. CASE found = {}
    <3>1. work' = items /\ runner' = runner
      BY <2>2 DEF PollWork, items
    <3> QED BY <1>1, <3>1
  <2>3. CASE found # {}
    <3>1. found \in SUBSET Nat
      BY EnvironmentWorkAssumption DEF WorkIds, Candidates
    <3>2. Min(found) \in found
      BY <2>3, <3>1, MinIsLeast
    <3>3. PICK k \in WorkIds :
            /\ \A j \in WorkIds \ {k} : items[j].state \notin {"starting", "active", "stopping"}
            /\ work' = [items EXCEPT ![k].polled = workNow]
            /\ runner' = [runner EXCEPT ![r] = [NoRunner EXCEPT !.item = k, !.phase = "polled"]]
      <4>1. /\ Min(found) \in WorkIds
            /\ \A j \in WorkIds \ {Min(found)} : items[j].state \notin {"starting", "active", "stopping"}
        BY <3>2 DEF Candidates
      <4>2. /\ work' = [items EXCEPT ![Min(found)].polled = workNow]
            /\ runner' = [runner EXCEPT ![r] = [NoRunner EXCEPT !.item = Min(found), !.phase = "polled"]]
        BY <2>3 DEF PollWork, items
      <4> HIDE DEF found
      <4> QED BY <4>1, <4>2
    <3>4. /\ work' \in [WorkIds -> WorkType]
          /\ \A i \in WorkIds : i # k => work'[i] = items[i]
          /\ work'[k].state = items[k].state /\ work'[k].activation = items[k].activation
          /\ work'[k].heartbeat = items[k].heartbeat /\ work'[k].stopRequested = items[k].stopRequested
      BY <1>1, <2>1, <3>3 DEF WorkType
    <3> QED BY <3>3, <3>4
  <2> QED BY <2>2, <2>3
<1>3. /\ runner' \in [Runners -> RunnerType]
      /\ \A s \in Runners : s # r => runner'[s] = runner[s]
      /\ \/ runner' = runner
         \/ runner'[r].phase = "polled" /\ runner'[r].item \in WorkIds /\ runner'[r].expected = 0
  <2>1. runner \in [Runners -> RunnerType]
    BY DEF WorkTyped
  <2>2. CASE runner' = runner
    BY <2>1, <2>2
  <2>3. ASSUME NEW k \in WorkIds,
               runner' = [runner EXCEPT ![r] = [NoRunner EXCEPT !.item = k, !.phase = "polled"]]
        PROVE  /\ runner' \in [Runners -> RunnerType]
               /\ \A s \in Runners : s # r => runner'[s] = runner[s]
               /\ runner'[r].phase = "polled" /\ runner'[r].item \in WorkIds /\ runner'[r].expected = 0
    <3>1. k \in Nat
      BY EnvironmentWorkAssumption DEF WorkIds
    <3>2. PICK q : q = [NoRunner EXCEPT !.item = k, !.phase = "polled"]
      OBVIOUS
    <3>3. q \in RunnerType /\ q.item = k /\ q.phase = "polled" /\ q.expected = 0
      BY <3>1, <3>2 DEF NoRunner, RunnerType
    <3>4. runner' = [runner EXCEPT ![r] = q]
      BY <2>3, <3>2
    <3> QED BY <2>1, <3>3, <3>4
  <2> QED BY <1>2, <2>2, <2>3
<1>4. UNCHANGED <<workNow, workSeq, workOpen, admitting, forced, overtaken>>
  BY DEF PollWork
<1>5. WorkTyped'
  BY <1>2, <1>3, <1>4 DEF WorkTyped
<1>6. OneAtATime'
  <2> SUFFICES ASSUME NEW i \in WorkIds, NEW j \in WorkIds
               PROVE  /\ Live(i)' /\ Live(j)' => i = j
                      /\ Busy(i)' /\ Busy(j)' => i = j
                      /\ work'[i].state = "queued" /\ work'[i].polled # 0 => ~Busy(j)'
    BY DEF OneAtATime
  <2>1. (Live(i)' => Live(i)) /\ (Live(j)' => Live(j)) /\ (Busy(i)' => Busy(i)) /\ (Busy(j)' => Busy(j))
    BY <1>1, <1>2 DEF Live, Busy
  <2>2. ASSUME work'[i].state = "queued", work'[i].polled # 0, Busy(j)' PROVE FALSE
    <3>1. i # j
      BY <2>2 DEF Busy
    <3>2. work'[i].polled = items[i].polled
      BY <1>2, <2>2, <3>1 DEF Busy
    <3>3. items[i] = work[i]
      BY <1>1, <1>2, <2>2, <3>2
    <3> QED BY <1>2, <2>1, <2>2, <3>2, <3>3 DEF OneAtATime
  <2> QED BY <2>1, <2>2 DEF OneAtATime
<1>7. StopIsLast'
  <2> SUFFICES ASSUME NEW i \in WorkIds
               PROVE  /\ work'[i].heartbeat <= workNow
                      /\ work'[i].stopRequested # 0 => work'[i].state \in {"stopping", "stopped"}
                      /\ work'[i].state = "stopping" => work'[i].heartbeat <= work'[i].stopRequested
    BY <1>4 DEF StopIsLast
  <2>1. /\ workNow \in Nat /\ work[i].heartbeat <= workNow
        /\ work[i].stopRequested # 0 => work[i].state \in {"stopping", "stopped"}
        /\ work[i].state = "stopping" => work[i].heartbeat <= work[i].stopRequested
    BY DEF StopIsLast, WorkTyped
  <2>2. /\ work'[i].state = items[i].state
        /\ work'[i].heartbeat = items[i].heartbeat /\ work'[i].stopRequested = work[i].stopRequested
    BY <1>1, <1>2
  <2> QED BY <1>1, <2>1, <2>2
<1>8. ForcedIsStopped'
  <2> SUFFICES ASSUME NEW i \in forced PROVE i \in WorkIds /\ work'[i].state = "stopped"
    BY <1>4 DEF ForcedIsStopped
  <2>1. i \in WorkIds /\ work[i].state = "stopped"
    BY DEF ForcedIsStopped
  <2> QED BY <1>1, <1>2, <2>1
<1>9. LeaseIsHeartbeat'
  <2> SUFFICES ASSUME NEW s \in Runners, runner'[s] = runner[s], runner[s].phase = "leased",
                      workNow <= runner[s].lease, runner[s].item \notin forced
               PROVE  /\ work'[runner[s].item].state \in {"active", "stopping"}
                      /\ work'[runner[s].item].heartbeat = runner[s].expected
    BY <1>3, <1>4 DEF LeaseIsHeartbeat
  <2> DEFINE i == runner[s].item
  <2>1. /\ i \in WorkIds /\ work[i].state \in {"active", "stopping"}
        /\ work[i].heartbeat = runner[s].expected /\ workNow <= work[i].heartbeat + TTL
    BY DEF LeaseIsHeartbeat
  <2>2. work[i] \in WorkType /\ workNow \in Nat /\ TTL \in Nat
    BY <2>1, EnvironmentWorkAssumption DEF WorkTyped
  <2>3. /\ work[i].heartbeat \in Nat /\ work[i].stopRequested \in Nat
        /\ work[i].state = "stopping" => work[i].heartbeat <= work[i].stopRequested
    BY <2>1, <2>2 DEF WorkType, StopIsLast
  <2>4. ~(work[i].state = "active" /\ Elapsed(work[i].heartbeat))
    BY <2>1, <2>2, <2>3 DEF Elapsed
  <2>5. ~(work[i].state = "stopping" /\ Elapsed(work[i].stopRequested))
    BY <2>1, <2>2, <2>3 DEF Elapsed
  <2>6. items[i] = work[i]
    BY <1>1, <2>1, <2>4, <2>5
  <2> QED BY <1>2, <2>1, <2>6
<1>10. LeaseIsUnique'
  BY <1>3 DEF LeaseIsUnique
<1>11. ActivationKept' /\ AdmissionWaits'
  <2>1. \A i \in WorkIds : /\ Live(i) <=> Live(i)'
                           /\ work[i].state = "none" <=> work'[i].state = "none"
                           /\ work'[i].activation = work[i].activation
    BY <1>1, <1>2 DEF Live
  <2>2. ActivationKept'
    BY <1>4, <2>1 DEF ActivationKept, Covered, LiveWork, Live
  <2>3. AdmissionWaits'
    BY <1>4, <2>1 DEF AdmissionWaits
  <2> QED BY <2>2, <2>3
<1> QED
  BY <1>5, <1>6, <1>7, <1>8, <1>9, <1>10, <1>11

\* An acknowledgement starts the item that was polled, if it still waits.
LEMMA AckStep == ASSUME NEW r \in Runners, WorkInv, AckWork(r) PROVE WorkInv'
<1> USE DEF WorkInv
<1> DEFINE i == runner[r].item
<1>1. i \in WorkIds /\ runner[r].expected = 0 /\ runner[r].phase = "polled"
  BY DEF AckWork, LeaseIsHeartbeat
<1>2. CASE work' = work /\ runner' = [runner EXCEPT ![r] = NoRunner]
  <2>1. NoRunner \in RunnerType /\ NoRunner.phase = "none"
    BY DEF NoRunner, RunnerType
  <2>2. /\ runner' \in [Runners -> RunnerType] /\ runner'[r].phase = "none"
        /\ \A s \in Runners : s # r => runner'[s] = runner[s]
    BY <1>2, <2>1 DEF WorkTyped
  <2> QED
    BY <1>2, <2>2 DEF AckWork, WorkTyped, OneAtATime, Live, Busy, StopIsLast, ForcedIsStopped,
                      LeaseIsHeartbeat, LeaseIsUnique, ActivationKept, Covered, LiveWork, AdmissionWaits
<1>3. CASE /\ work[i].state = "queued" /\ work[i].polled # 0
           /\ work' = [work EXCEPT ![i].state = "starting", ![i].acked = workNow]
           /\ runner' = [runner EXCEPT ![r].phase = "acked"]
  <2>1. /\ work' \in [WorkIds -> WorkType]
        /\ \A j \in WorkIds : j # i => work'[j] = work[j]
        /\ work'[i].state = "starting" /\ work'[i].activation = work[i].activation
        /\ work'[i].heartbeat = work[i].heartbeat /\ work'[i].stopRequested = work[i].stopRequested
    <3>1. work \in [WorkIds -> WorkType] /\ workNow \in Nat
      BY DEF WorkTyped
    <3> HIDE DEF i, WorkInv
    <3> QED BY <1>1, <1>3, <3>1 DEF WorkType
  <2>2. /\ runner' \in [Runners -> RunnerType]
        /\ \A s \in Runners : s # r => runner'[s] = runner[s]
        /\ runner'[r].phase = "acked" /\ runner'[r].item = i /\ runner'[r].expected = 0
    <3>1. runner \in [Runners -> RunnerType]
      BY DEF WorkTyped
    <3> QED BY <1>1, <1>3, <3>1 DEF RunnerType
  <2> HIDE DEF i
  <2>3. UNCHANGED <<workNow, workSeq, workOpen, admitting, forced, overtaken>>
    BY DEF AckWork
  <2>4. WorkTyped'
    BY <2>1, <2>2, <2>3 DEF WorkTyped
  <2>5. OneAtATime'
    BY <1>1, <1>3, <2>1 DEF OneAtATime, Live, Busy
  <2>6. StopIsLast' /\ ForcedIsStopped'
    BY <1>1, <1>3, <2>1, <2>3 DEF StopIsLast, ForcedIsStopped
  <2>7. LeaseIsHeartbeat' /\ LeaseIsUnique'
    BY <1>1, <1>3, <2>1, <2>2, <2>3 DEF LeaseIsHeartbeat, LeaseIsUnique
  <2>8. ActivationKept'
    BY <1>1, <1>3, <2>1, <2>3 DEF ActivationKept, Covered, LiveWork
  <2>9. AdmissionWaits'
    BY <1>1, <1>3, <2>1, <2>3 DEF AdmissionWaits, Live
  <2> QED BY <2>4, <2>5, <2>6, <2>7, <2>8, <2>9
<1> QED BY <1>2, <1>3 DEF AckWork

\* A heartbeat takes or extends the lease, if the last one is the one expected.
LEMMA HeartbeatStep == ASSUME NEW r \in Runners, WorkInv, HeartbeatWork(r) PROVE WorkInv'
<1> USE DEF WorkInv
<1> DEFINE i == runner[r].item
<1>1. i \in WorkIds
  BY DEF HeartbeatWork, LeaseIsHeartbeat
<1>2. CASE work' = work /\ runner' = [runner EXCEPT ![r] = NoRunner]
  <2>1. NoRunner \in RunnerType /\ NoRunner.phase = "none"
    BY DEF NoRunner, RunnerType
  <2>2. /\ runner' \in [Runners -> RunnerType] /\ runner'[r].phase = "none"
        /\ \A s \in Runners : s # r => runner'[s] = runner[s]
    BY <1>2, <2>1 DEF WorkTyped
  <2> QED
    BY <1>2, <2>2 DEF HeartbeatWork, WorkTyped, OneAtATime, Live, Busy, StopIsLast, ForcedIsStopped,
                      LeaseIsHeartbeat, LeaseIsUnique, ActivationKept, Covered, LiveWork, AdmissionWaits
<1>3. CASE /\ HeartbeatMatches(r) /\ work[i].state \in {"starting", "active"}
           /\ work' = [work EXCEPT ![i].state = "active", ![i].heartbeat = workNow]
           /\ runner' = [runner EXCEPT ![r].phase = "leased", ![r].expected = workNow,
                                       ![r].lease = workNow + TTL]
  <2>0. workNow \in Nat \ {0} /\ TTL \in Nat /\ workNow + TTL \in Nat /\ work[i] \in WorkType
    BY <1>1, EnvironmentWorkAssumption DEF WorkTyped
  <2>1. /\ work' \in [WorkIds -> WorkType]
        /\ \A j \in WorkIds : j # i => work'[j] = work[j]
        /\ work'[i].state = "active" /\ work'[i].activation = work[i].activation
        /\ work'[i].heartbeat = workNow /\ work'[i].stopRequested = work[i].stopRequested
    <3>1. work \in [WorkIds -> WorkType]
      BY DEF WorkTyped
    <3> HIDE DEF i, WorkInv
    <3> QED BY <1>1, <1>3, <2>0, <3>1 DEF WorkType
  <2>2. /\ runner' \in [Runners -> RunnerType]
        /\ \A s \in Runners : s # r => runner'[s] = runner[s]
        /\ runner'[r].phase = "leased" /\ runner'[r].item = i /\ runner'[r].expected = workNow
        /\ runner'[r].lease = workNow + TTL
    <3>1. runner \in [Runners -> RunnerType]
      BY DEF WorkTyped
    <3> QED BY <1>3, <2>0, <3>1 DEF RunnerType
  <2>3. UNCHANGED <<workNow, workSeq, workOpen, admitting, forced, overtaken>>
    BY DEF HeartbeatWork
  \* nobody else holds a lease on the item that still runs
  <2>4. ASSUME NEW s \in Runners, s # r, runner[s].phase = "leased", runner[s].item = i,
               workNow <= runner[s].lease
        PROVE  FALSE
    <3>1. i \notin forced
      BY <1>3 DEF ForcedIsStopped
    <3>2. runner[s].expected = work[i].heartbeat /\ runner[s].expected # 0
      BY <2>4, <3>1 DEF LeaseIsHeartbeat
    <3>3. runner[r].expected = runner[s].expected
      BY <1>3, <3>2 DEF HeartbeatMatches
    <3>4. runner[r].phase = "leased"
      BY <3>2, <3>3 DEF HeartbeatWork, LeaseIsHeartbeat
    <3> QED BY <2>4, <3>3, <3>4 DEF LeaseIsUnique
  <2> HIDE DEF i
  <2>5. WorkTyped'
    BY <2>1, <2>2, <2>3 DEF WorkTyped
  <2>6. OneAtATime'
    BY <1>1, <1>3, <2>1 DEF OneAtATime, Live, Busy
  <2>7. StopIsLast' /\ ForcedIsStopped'
    BY <1>1, <1>3, <2>0, <2>1, <2>3 DEF StopIsLast, ForcedIsStopped
  <2>8. LeaseIsHeartbeat'
    <3> SUFFICES ASSUME NEW s \in Runners
                 PROVE  /\ runner'[s].phase # "none" => runner'[s].item \in WorkIds
                        /\ runner'[s].phase \in {"polled", "acked"} => runner'[s].expected = 0
                        /\ runner'[s].phase = "leased" =>
                             /\ runner'[s].expected \in 1..workNow /\ runner'[s].lease = runner'[s].expected + TTL
                             /\ workNow <= runner'[s].lease /\ runner'[s].item \notin forced =>
                                  /\ work'[runner'[s].item].state \in {"active", "stopping"}
                                  /\ work'[runner'[s].item].heartbeat = runner'[s].expected
      BY <2>3 DEF LeaseIsHeartbeat
    <3>1. CASE s = r
      BY <1>1, <2>0, <2>1, <2>2, <3>1
    <3>2. CASE s # r
      BY <2>1, <2>2, <2>4, <3>2 DEF LeaseIsHeartbeat
    <3> QED BY <3>1, <3>2
  <2>9. LeaseIsUnique'
    <3> SUFFICES ASSUME NEW s \in Runners, s # r, runner[s].phase = "leased", runner[s].item = i,
                        runner[s].expected = workNow
                 PROVE  FALSE
      BY <2>2 DEF LeaseIsUnique
    <3>1. workNow <= runner[s].lease
      BY <2>0 DEF LeaseIsHeartbeat
    <3> QED BY <2>4, <3>1
  <2>10. ActivationKept'
    BY <1>1, <1>3, <2>1, <2>3 DEF ActivationKept, Covered, LiveWork
  <2>11. AdmissionWaits'
    BY <1>1, <1>3, <2>1, <2>3 DEF AdmissionWaits, Live
  <2> QED BY <2>5, <2>6, <2>7, <2>8, <2>9, <2>10, <2>11
<1> QED BY <1>2, <1>3 DEF HeartbeatWork

\* A stop, gentle or forced, ends the item, and input that came after its
\* activation gets a successor.
LEMMA StopStep ==
    ASSUME NEW i \in WorkIds, NEW force \in BOOLEAN, WorkInv, StopWork(i, force)
    PROVE  WorkInv'
<1> USE DEF WorkInv
<1> DEFINE over == force \/ work[i].state \in {"queued", "starting"}
           stopped == [work EXCEPT ![i].state = IF over THEN "stopped" ELSE "stopping",
                                   ![i].stopRequested = IF @ = 0 THEN workNow ELSE @]
<1>1. /\ work \in [WorkIds -> WorkType] /\ work[i] \in WorkType /\ workNow \in Nat \ {0}
      /\ work[i].stopRequested \in Nat
  BY DEF WorkTyped, WorkType
\* the item after the stop, before a successor is inserted
<1>2. /\ stopped \in [WorkIds -> WorkType]
      /\ \A j \in WorkIds : j # i => stopped[j] = work[j]
      /\ stopped[i].state = IF over THEN "stopped" ELSE "stopping"
      /\ stopped[i].activation = work[i].activation /\ stopped[i].heartbeat = work[i].heartbeat
      /\ stopped[i].stopRequested = IF work[i].stopRequested = 0 THEN workNow ELSE work[i].stopRequested
  <2>1. PICK st \in {"stopped", "stopping"}, t \in Nat :
          /\ st = IF over THEN "stopped" ELSE "stopping"
          /\ t = IF work[i].stopRequested = 0 THEN workNow ELSE work[i].stopRequested
    BY <1>1
  <2>2. stopped = [work EXCEPT ![i].state = st, ![i].stopRequested = t]
    BY <2>1
  <2> HIDE DEF over, stopped
  <2> QED BY <1>1, <2>1, <2>2 DEF WorkType
<1>3. /\ work[i].state \notin {"none", "stopped"}
      /\ forced' = IF force /\ work[i].state \in {"active", "stopping"} THEN forced \cup {i} ELSE forced
      /\ UNCHANGED <<workNow, workSeq, workOpen, admitting, runner, overtaken>>
      /\ \E j \in WorkIds : work[j].state = "none"
      /\ NewInput(i) # {} => ~admitting.inserts
  BY DEF StopWork
<1>p. PICK seq \in Nat : work' = IF NewInput(i) # {} THEN InsertWork(stopped, seq) ELSE stopped
  <2>1. work[i].activation..workSeq \subseteq Nat
    BY <1>1 DEF WorkTyped, WorkType
  <2> QED BY <2>1 DEF StopWork
<1> HIDE DEF stopped
\* where a successor goes, and that it is there when input needs it
<1>4. /\ work' \in [WorkIds -> WorkType]
      /\ \/ /\ work' = stopped
            /\ LiveWork(stopped) # {} \/ \A e \in workOpen : ~(e > work[i].activation)
         \/ \E k \in WorkIds :
              /\ LiveWork(stopped) = {} /\ NewInput(i) # {}
              /\ k # i /\ work[k].state = "none"
              /\ work'[k].state = "queued" /\ work'[k].polled = 0 /\ work'[k].heartbeat = 0
              /\ work'[k].stopRequested = 0
              /\ \A j \in WorkIds : j # k => work'[j] = stopped[j]
  <2>1. CASE NewInput(i) = {}
    BY <1>2, <1>p, <2>1 DEF NewInput
  <2>2. CASE NewInput(i) # {}
    <3>1. work' = InsertWork(stopped, seq)
      BY <1>p, <2>2
    <3>2. \E k \in WorkIds : stopped[k].state = "none"
      BY <1>2, <1>3
    <3>3. CASE LiveWork(stopped) # {} /\ work' = stopped
      BY <1>2, <3>3
    <3>4. ASSUME LiveWork(stopped) = {}, NEW k \in WorkIds, stopped[k].state = "none",
                 work' = [stopped EXCEPT ![k] = [NoWork EXCEPT !.state = "queued", !.activation = seq]]
          PROVE  /\ work' \in [WorkIds -> WorkType]
                 /\ k # i /\ work[k].state = "none"
                 /\ work'[k].state = "queued" /\ work'[k].polled = 0 /\ work'[k].heartbeat = 0
                 /\ work'[k].stopRequested = 0
                 /\ \A j \in WorkIds : j # k => work'[j] = stopped[j]
      <4>1. k # i
        BY <1>2, <3>4
      <4>2. PICK q \in WorkType :
              /\ q = [NoWork EXCEPT !.state = "queued", !.activation = seq]
              /\ q.state = "queued" /\ q.polled = 0 /\ q.heartbeat = 0 /\ q.stopRequested = 0
        BY QueuedItem
      <4>3. work' = [stopped EXCEPT ![k] = q]
        BY <3>4, <4>2
      <4>4. work[k].state = "none"
        BY <1>2, <3>4, <4>1
      <4> QED BY <1>2, <4>1, <4>2, <4>3, <4>4
    <3>5. \/ LiveWork(stopped) # {} /\ work' = stopped
          \/ /\ LiveWork(stopped) = {}
             /\ \E k \in WorkIds :
                  /\ stopped[k].state = "none"
                  /\ work' = [stopped EXCEPT ![k] = [NoWork EXCEPT !.state = "queued", !.activation = seq]]
      <4>1. stopped \in [WorkIds -> WorkType] /\ seq \in Nat
        BY <1>2
      <4> HIDE DEF WorkInv
      <4>2. \/ LiveWork(stopped) # {} /\ InsertWork(stopped, seq) = stopped
            \/ /\ LiveWork(stopped) = {}
               /\ \E k \in WorkIds :
                    /\ stopped[k].state = "none"
                    /\ InsertWork(stopped, seq) =
                         [stopped EXCEPT ![k] = [NoWork EXCEPT !.state = "queued", !.activation = seq]]
        BY <3>2, <4>1, ItemInserted, Zenon
      <4> QED BY <3>1, <4>2, Zenon
    <3>6. CASE LiveWork(stopped) = {}
      <4>1. PICK k \in WorkIds :
               /\ stopped[k].state = "none"
               /\ work' = [stopped EXCEPT ![k] = [NoWork EXCEPT !.state = "queued", !.activation = seq]]
        BY <3>5, <3>6
      <4> QED BY <2>2, <3>4, <3>6, <4>1
    <3> QED BY <3>3, <3>5, <3>6
  <2> QED BY <2>1, <2>2
\* each item is as before, the stopped one, or the successor
<1>5. \A j \in WorkIds :
        \/ j # i /\ work'[j] = work[j]
        \/ /\ j = i /\ work'[i].state = (IF over THEN "stopped" ELSE "stopping")
           /\ work'[i].activation = work[i].activation /\ work'[i].heartbeat = work[i].heartbeat
           /\ work'[i].stopRequested = IF work[i].stopRequested = 0 THEN workNow ELSE work[i].stopRequested
        \/ /\ j # i /\ work[j].state = "none"
           /\ LiveWork(stopped) = {} /\ NewInput(i) # {}
           /\ \A k \in WorkIds : k # j => work'[k] = stopped[k]
           /\ work'[j].state = "queued" /\ work'[j].polled = 0 /\ work'[j].heartbeat = 0
           /\ work'[j].stopRequested = 0
  BY <1>2, <1>4
<1>6. WorkTyped'
  BY <1>3, <1>4 DEF WorkTyped
<1>7. OneAtATime'
  <2>1. over => ~Busy(i)' /\ ~Live(i)'
    BY <1>5 DEF Busy, Live
  <2>2. ~over => work[i].state \in {"active", "stopping"}
    BY <1>1, <1>3 DEF WorkType
  <2>3. \A j \in WorkIds : (Busy(j)' => Busy(j)) /\ ~Live(i)'
    BY <1>5, <2>2 DEF Busy, Live
  <2>4. \A j, k \in WorkIds : Live(j)' /\ Live(k)' => j = k
    BY <1>2, <1>5, <2>3 DEF Live, OneAtATime, LiveWork
  <2>5. \A j, k \in WorkIds : work'[j].state = "queued" /\ work'[j].polled # 0 => ~Busy(k)'
    BY <1>5, <2>3 DEF OneAtATime
  <2> QED BY <2>3, <2>4, <2>5 DEF OneAtATime
<1>8. StopIsLast'
  <2> SUFFICES ASSUME NEW j \in WorkIds
               PROVE  /\ work'[j].heartbeat <= workNow
                      /\ work'[j].stopRequested # 0 => work'[j].state \in {"stopping", "stopped"}
                      /\ work'[j].state = "stopping" => work'[j].heartbeat <= work'[j].stopRequested
    BY <1>3 DEF StopIsLast
  <2>1. CASE j = i
    <3>1. work[i].stopRequested # 0 => work[i].state = "stopping"
      BY <1>3 DEF StopIsLast
    <3> QED BY <1>1, <1>5, <2>1, <3>1 DEF StopIsLast
  <2>2. CASE j # i
    BY <1>1, <1>5, <2>2 DEF StopIsLast
  <2> QED BY <2>1, <2>2
<1>9. ForcedIsStopped'
  BY <1>3, <1>5 DEF ForcedIsStopped
<1>10. LeaseIsHeartbeat'
  <2> SUFFICES ASSUME NEW s \in Runners, runner[s].phase = "leased",
                      workNow <= runner[s].lease, runner[s].item \notin forced'
               PROVE  /\ work'[runner[s].item].state \in {"active", "stopping"}
                      /\ work'[runner[s].item].heartbeat = runner[s].expected
    BY <1>3 DEF LeaseIsHeartbeat
  <2> DEFINE j == runner[s].item
  <2>1. j \notin forced
    BY <1>3
  <2>2. j \in WorkIds /\ work[j].state \in {"active", "stopping"} /\ work[j].heartbeat = runner[s].expected
    BY <2>1 DEF LeaseIsHeartbeat
  <2>3. j = i => ~over
    BY <1>3, <2>2
  <2> HIDE DEF j
  <2>4. /\ work'[j].state \in {"active", "stopping"} /\ work'[j].heartbeat = runner[s].expected
    BY <1>5, <2>2, <2>3
  <2> QED BY <2>4 DEF j
<1>11. LeaseIsUnique'
  BY <1>3 DEF LeaseIsUnique
<1>12. ActivationKept'
  <2> SUFFICES ASSUME NEW e \in workOpen
               PROVE  \/ LiveWork(work') # {}
                      \/ \E j \in WorkIds : work'[j].state # "none" /\ work'[j].activation >= e
    BY <1>3 DEF ActivationKept, Covered
  <2>1. CASE work' = stopped /\ LiveWork(stopped) # {}
    BY <2>1
  <2>2. CASE work' = stopped /\ \A d \in workOpen : ~(d > work[i].activation)
    <3>1. e \in Nat /\ work[i].activation \in Nat /\ ~(e > work[i].activation)
      BY <1>1, <2>2 DEF WorkTyped, WorkType
    <3> QED BY <1>2, <2>2, <3>1
  <2>3. CASE \E k \in WorkIds : work'[k].state = "queued"
    BY <2>3 DEF LiveWork
  <2> QED BY <1>4, <2>1, <2>2, <2>3
<1>13. AdmissionWaits'
  <2>1. admitting.inserts => work' = stopped
    BY <1>3, <1>p
  <2>2. ASSUME work' = stopped
        PROVE  /\ \A j \in WorkIds : Live(j)' => Live(j)
               /\ \A j \in WorkIds : work[j].state = "none" => work'[j].state = "none"
    BY <1>2, <1>3, <2>2 DEF Live
  <2> QED BY <1>3, <2>1, <2>2 DEF AdmissionWaits
<1> QED BY <1>6, <1>7, <1>8, <1>9, <1>10, <1>11, <1>12, <1>13

\* Every step of the queue, of its runners and of the clock keeps the invariant.
LEMMA WorkStep == WorkInv /\ [WorkNext]_workVars => WorkInv'
<1> SUFFICES ASSUME WorkInv, [WorkNext]_workVars PROVE WorkInv'
  OBVIOUS
<1>1. CASE ProcessRunnable
  <2>1. workOpen' \subseteq workOpen
    BY <1>1 DEF ProcessRunnable
  <2> QED
    BY <1>1, <2>1 DEF ProcessRunnable, WorkInv, WorkTyped, OneAtATime, Live, Busy, StopIsLast, ForcedIsStopped,
                LeaseIsHeartbeat, LeaseIsUnique, ActivationKept, Covered, LiveWork, AdmissionWaits
<1>2. CASE WorkTick
  <2>1. workNow' = workNow + 1 /\ workNow \in Nat \ {0} /\ TTL \in Nat
    BY <1>2, EnvironmentWorkAssumption DEF WorkTick, WorkInv, WorkTyped
  <2>2. WorkTyped' /\ OneAtATime' /\ ForcedIsStopped' /\ LeaseIsUnique' /\ ActivationKept'
        /\ AdmissionWaits'
    BY <1>2, <2>1 DEF WorkTick, WorkInv, WorkTyped, OneAtATime, Live, Busy, ForcedIsStopped, LeaseIsUnique,
                      ActivationKept, Covered, LiveWork, AdmissionWaits
  <2>3. StopIsLast'
    <3>1. \A i \in WorkIds : work[i].heartbeat \in Nat
      BY DEF WorkInv, WorkTyped, WorkType
    <3> QED BY <1>2, <2>1, <3>1 DEF WorkTick, WorkInv, StopIsLast
  <2>4. LeaseIsHeartbeat'
    <3>1. \A s \in Runners : runner[s].lease \in Nat
      BY DEF WorkInv, WorkTyped, RunnerType
    <3> QED BY <1>2, <2>1, <3>1 DEF WorkTick, WorkInv, LeaseIsHeartbeat
  <2> QED BY <2>2, <2>3, <2>4 DEF WorkInv
<1>3. ASSUME NEW r \in Runners, RunnerQuits(r) PROVE WorkInv'
  <2>1. NoRunner \in RunnerType /\ NoRunner.phase = "none"
    BY DEF NoRunner, RunnerType
  <2>2. /\ runner' \in [Runners -> RunnerType] /\ runner'[r].phase = "none"
        /\ \A s \in Runners : s # r => runner'[s] = runner[s]
    BY <1>3, <2>1 DEF RunnerQuits, WorkInv, WorkTyped
  <2> QED
    BY <1>3, <2>2 DEF RunnerQuits, WorkInv, WorkTyped, OneAtATime, Live, Busy, StopIsLast, ForcedIsStopped,
                LeaseIsHeartbeat, LeaseIsUnique, ActivationKept, Covered, LiveWork, AdmissionWaits
<1>4. CASE UNCHANGED workVars
  BY <1>4 DEF workVars, WorkInv, WorkTyped, OneAtATime, Live, Busy, StopIsLast, ForcedIsStopped,
              LeaseIsHeartbeat, LeaseIsUnique, ActivationKept, Covered, LiveWork, AdmissionWaits
<1>5. CASE AbortAdmission
  <2>1. NoAdmission \in [seq : Nat, inserts : BOOLEAN] /\ ~NoAdmission.inserts
    BY DEF NoAdmission
  <2> QED
    BY <1>5, <2>1 DEF AbortAdmission, WorkInv, WorkTyped, OneAtATime, Live, Busy, StopIsLast, ForcedIsStopped,
                LeaseIsHeartbeat, LeaseIsUnique, ActivationKept, Covered, LiveWork, AdmissionWaits
<1> QED
  BY <1>1, <1>2, <1>3, <1>4, <1>5, EnqueueStep, CommitStep, PollStep, AckStep, HeartbeatStep, StopStep DEF WorkNext

\* Two leases that run on one item were granted by one heartbeat.
LEMMA LeaseIsExclusive == WorkInv => ExclusiveLease
<1> SUFFICES ASSUME WorkInv, NEW r \in Runners, NEW s \in Runners,
                    Executing(r), runner[r].item \notin forced,
                    Executing(s), runner[s].item \notin forced
             PROVE  r = s
  BY DEF ExclusiveLease
<1>1. /\ runner[r].item \in WorkIds /\ Busy(runner[r].item)
      /\ runner[s].item \in WorkIds /\ Busy(runner[s].item)
      /\ work[runner[r].item].heartbeat = runner[r].expected
      /\ work[runner[s].item].heartbeat = runner[s].expected
  BY DEF WorkInv, LeaseIsHeartbeat, Executing, Busy
<1>2. runner[r].item = runner[s].item
  BY <1>1 DEF WorkInv, OneAtATime
<1> QED BY <1>1, <1>2 DEF WorkInv, LeaseIsUnique, Executing

\* One item at a time is executed, one runner at a time holds its lease, and the
\* only input ever left without an item was committed after Stop had taken the one
\* its admission found, for any number of items and runners, any lease and any
\* course of the clock.
THEOREM WorkExact == WorkSpec => []WorkIsExact
<1>1. WorkInv => WorkIsExact
  BY LeaseIsExclusive DEF WorkIsExact, WorkInv
<1> QED BY <1>1, WorkInitInv, WorkStep, PTL DEF WorkSpec

-----------------------------------------------------------------------------
(* Budget                                                                  *)

\* a Thread's row, and where its turn is
ThrType == [status : {"running", "idle"}, paused : BOOLEAN, model : Nat]
TurnType == [pc : {"admit", "call", "account", "waiting", "next", "idle"},
             kind : {"model", "advisor"}, req : Nat]

\* what the variables hold
BudgetTyped ==
    /\ ceiling \in Nat /\ cost \in [model : Nat, runtime : Nat, known : BOOLEAN]
    /\ thr \in [BudgetThreads -> ThrType] /\ turn \in [BudgetThreads -> TurnType]
    /\ usage \subseteq Nat \X BudgetThreads /\ IsFiniteSet(usage)
    /\ nudge \in [BudgetThreads -> BOOLEAN]

\* two Threads never account the same request, and one that is on record under
\* the id a Thread accounts is the Thread's own
RequestsAreOwned ==
    \A t \in BudgetThreads : turn[t].pc = "account" =>
        /\ \A s \in BudgetThreads : turn[s].pc = "account" /\ turn[s].req = turn[t].req => s = t
        /\ \A u \in usage : u[1] = turn[t].req => u[2] = t

\* a Thread that is marked paused meets a budget that is still reached
PausedWhileReached == \A t \in BudgetThreads : thr[t].paused => BudgetReached

\* the inductive invariant of the budget
BudgetInv == /\ BudgetTyped /\ RequestsAreOwned /\ PausedWhileReached
             /\ RequestsPaidOnce /\ BudgetPauseResumes

\* With nothing used and every Thread ready the invariant holds.
LEMMA BudgetInitInv == BudgetInit => BudgetInv
<1> SUFFICES ASSUME BudgetInit PROVE BudgetInv
  OBVIOUS
<1>1. BudgetTyped
  BY BudgetAssumption, FS_EmptySet DEF BudgetInit, BudgetTyped, ThrType, TurnType
<1>2. RequestsPaidOnce
  <2>1. \A t \in BudgetThreads : {u \in usage : u[2] = t} = {}
    BY DEF BudgetInit
  <2> QED BY <2>1, FS_EmptySet DEF BudgetInit, RequestsPaidOnce
<1> QED BY <1>1, <1>2 DEF BudgetInit, BudgetInv, RequestsAreOwned, PausedWhileReached, BudgetPauseResumes

\* A step that keeps the cost, the model costs and the records keeps the account.
LEMMA SameAccount ==
    ASSUME RequestsPaidOnce, usage' = usage, cost' .model = cost.model, cost'.known = cost.known,
           \A t \in BudgetThreads : thr'[t].model = thr[t].model
    PROVE  RequestsPaidOnce'
  BY DEF RequestsPaidOnce

\* Every step of the accounting, of the turns and of the client keeps the
\* invariant.
LEMMA BudgetStep == BudgetInv /\ [BudgetNext]_budgetVars => BudgetInv'
<1> SUFFICES ASSUME BudgetInv, [BudgetNext]_budgetVars PROVE BudgetInv'
  OBVIOUS
<1> USE DEF BudgetInv
<1>0. /\ thr \in [BudgetThreads -> ThrType] /\ turn \in [BudgetThreads -> TurnType]
      /\ nudge \in [BudgetThreads -> BOOLEAN] /\ cost \in [model : Nat, runtime : Nat, known : BOOLEAN]
      /\ usage \subseteq Nat \X BudgetThreads /\ IsFiniteSet(usage) /\ ceiling \in Nat
  BY DEF BudgetTyped
<1>1. ASSUME NEW t \in BudgetThreads, AdmitModelRequest(t) PROVE BudgetInv'
  <2>1. CASE ~BudgetReached
    <3>1. /\ turn' \in [BudgetThreads -> TurnType]
          /\ \A s \in BudgetThreads : s # t => turn'[s] = turn[s]
          /\ turn'[t].pc = "call"
      BY <1>0, <1>1, <2>1 DEF AdmitModelRequest, TurnType
    <3>2. UNCHANGED <<ceiling, cost, thr, btotal, usage, nudge, inputs>>
      BY <1>1, <2>1 DEF AdmitModelRequest
    <3>3. ~thr[t].paused
      BY <2>1 DEF PausedWhileReached
    <3>4. BudgetPauseResumes'
      BY <3>1, <3>2, <3>3 DEF BudgetPauseResumes
    <3>5. RequestsAreOwned'
      BY <3>1, <3>2 DEF RequestsAreOwned
    <3> QED BY <3>1, <3>2, <3>4, <3>5, SameAccount DEF BudgetTyped, PausedWhileReached, BudgetReached, Consumed
  <2>2. CASE BudgetReached
    <3>1. /\ turn' \in [BudgetThreads -> TurnType]
          /\ \A s \in BudgetThreads : s # t => turn'[s] = turn[s]
          /\ turn'[t].pc = "waiting"
      BY <1>0, <1>1, <2>2 DEF AdmitModelRequest, TurnType
    <3>2. UNCHANGED <<ceiling, cost, usage, nudge, inputs>>
      BY <1>1 DEF AdmitModelRequest
    <3>3. /\ thr' \in [BudgetThreads -> ThrType]
          /\ \A s \in BudgetThreads : s # t => thr'[s] = thr[s]
          /\ thr'[t].paused /\ thr'[t].model = thr[t].model
      <4>1. CASE thr[t].paused
        BY <1>0, <1>1, <2>2, <4>1 DEF AdmitModelRequest
      <4>2. CASE ~thr[t].paused
        <5>1. thr' = [thr EXCEPT ![t].paused = TRUE, ![t].status = "idle"]
          BY <1>1, <2>2, <4>2 DEF AdmitModelRequest, Put
        <5> QED BY <1>0, <5>1 DEF ThrType
      <4> QED BY <4>1, <4>2
    <3>4. BudgetPauseResumes'
      BY <3>1, <3>2, <3>3 DEF BudgetPauseResumes
    <3>5. RequestsAreOwned'
      BY <3>1, <3>2 DEF RequestsAreOwned
    <3>6. RequestsPaidOnce'
      BY <3>2, <3>3, SameAccount
    <3> QED BY <2>2, <3>1, <3>2, <3>3, <3>4, <3>5, <3>6 DEF BudgetTyped, PausedWhileReached, BudgetReached, Consumed
  <2> QED BY <2>1, <2>2
<1>2. ASSUME NEW t \in BudgetThreads, WaitForWakeup(t) \/ BeginTurn(t) PROVE BudgetInv'
  <2>1. /\ turn' \in [BudgetThreads -> TurnType]
        /\ \A s \in BudgetThreads : s # t => turn'[s] = turn[s]
        /\ turn'[t].pc = "admit"
    BY <1>0, <1>2 DEF WaitForWakeup, BeginTurn, TurnType
  <2>2. /\ nudge' \in [BudgetThreads -> BOOLEAN]
        /\ \A s \in BudgetThreads : s # t => nudge'[s] = nudge[s]
    BY <1>0, <1>2 DEF WaitForWakeup, BeginTurn
  <2>3. UNCHANGED <<ceiling, cost, thr, btotal, usage, inputs>>
    BY <1>2 DEF WaitForWakeup, BeginTurn
  <2>4. BudgetPauseResumes'
    BY <2>1, <2>2, <2>3 DEF BudgetPauseResumes
  <2>5. RequestsAreOwned'
    BY <2>1, <2>3 DEF RequestsAreOwned
  <2> QED BY <2>1, <2>2, <2>3, <2>4, <2>5, SameAccount DEF BudgetTyped, PausedWhileReached, BudgetReached, Consumed
<1>3. ASSUME NEW t \in BudgetThreads, CallProvider(t) PROVE BudgetInv'
  <2>1. PICK r \in 1..MaxRequests \ Requests : turn' = [turn EXCEPT ![t].pc = "account", ![t].req = r]
    BY <1>3 DEF CallProvider
  <2>2. r \in Nat
    BY BudgetAssumption
  <2>3. /\ turn' \in [BudgetThreads -> TurnType]
        /\ \A s \in BudgetThreads : s # t => turn'[s] = turn[s]
        /\ turn'[t].pc = "account" /\ turn'[t].req = r
    <3> HIDE DEF BudgetInv
    <3>1. turn' \in [BudgetThreads -> TurnType]
      BY <1>0, <2>1, <2>2 DEF TurnType
    <3> QED BY <1>0, <2>1, <3>1 DEF TurnType
  <2>4. (\A u \in usage : u[1] # r) /\ \A s \in BudgetThreads : turn[s].req # r
    BY <2>1 DEF Requests
  <2>5. UNCHANGED <<ceiling, cost, thr, btotal, usage, nudge, inputs>>
    BY <1>3 DEF CallProvider
  <2>6. RequestsAreOwned'
    BY <2>3, <2>4, <2>5 DEF RequestsAreOwned
  <2>7. BudgetPauseResumes'
    BY <1>3, <2>3, <2>5 DEF CallProvider, BudgetPauseResumes
  <2> QED BY <2>3, <2>5, <2>6, <2>7, SameAccount DEF BudgetTyped, PausedWhileReached, BudgetReached, Consumed
<1>4. ASSUME NEW t \in BudgetThreads, EndTurn(t) PROVE BudgetInv'
  <2>1. /\ turn' \in [BudgetThreads -> TurnType]
        /\ \A s \in BudgetThreads : s # t => turn'[s] = turn[s]
        /\ turn'[t].pc \in {"admit", "idle"} /\ turn[t].pc = "next"
    BY <1>0, <1>4 DEF EndTurn, TurnType
  <2>2. /\ nudge' \in [BudgetThreads -> BOOLEAN]
        /\ \A s \in BudgetThreads : s # t => nudge'[s] = nudge[s]
    BY <1>0, <1>4 DEF EndTurn
  <2>3. /\ thr' \in [BudgetThreads -> ThrType]
        /\ \A s \in BudgetThreads : thr'[s].model = thr[s].model /\ thr'[s].paused = thr[s].paused
    BY <1>0, <1>4 DEF EndTurn, Put, ThrType
  <2>4. UNCHANGED <<ceiling, cost, usage, inputs>>
    BY <1>4 DEF EndTurn
  <2>5. RequestsAreOwned'
    BY <2>1, <2>4 DEF RequestsAreOwned
  <2>6. BudgetPauseResumes'
    BY <2>1, <2>2, <2>3 DEF BudgetPauseResumes
  <2> QED BY <2>1, <2>2, <2>3, <2>4, <2>5, <2>6, SameAccount DEF BudgetTyped, PausedWhileReached, BudgetReached, Consumed
<1>5. ASSUME NEW t \in BudgetThreads, AdmitBudgetInterrupt(t) PROVE BudgetInv'
  <2>1. /\ nudge' \in [BudgetThreads -> BOOLEAN]
        /\ \A s \in BudgetThreads : nudge[s] => nudge'[s]
    BY <1>0, <1>5 DEF AdmitBudgetInterrupt
  <2>2. UNCHANGED <<ceiling, cost, thr, btotal, usage, turn>>
    BY <1>5 DEF AdmitBudgetInterrupt
  <2>3. BudgetPauseResumes'
    BY <2>1, <2>2 DEF BudgetPauseResumes
  <2> QED BY <2>1, <2>2, <2>3, SameAccount DEF BudgetTyped, RequestsAreOwned, PausedWhileReached, BudgetReached, Consumed
<1>6. ASSUME NEW t \in BudgetThreads, NEW known \in BOOLEAN, NEW acked \in BOOLEAN,
             AccountModelRequest(t, known, acked)
      PROVE  BudgetInv'
  <2> DEFINE u == <<turn[t].req, t>>
  <2>1. u \in Nat \X BudgetThreads /\ usage' = usage \cup {u} /\ turn[t].pc = "account"
    BY <1>0, <1>6 DEF AccountModelRequest, TurnType
  <2>2. /\ turn' \in [BudgetThreads -> TurnType]
        /\ \A s \in BudgetThreads : turn'[s].req = turn[s].req
        /\ \A s \in BudgetThreads : turn'[s] = turn[s] \/ turn'[s].pc = "next"
        /\ \A s \in BudgetThreads : s # t => turn'[s] = turn[s]
    BY <1>0, <1>6 DEF AccountModelRequest, TurnType
  <2>3. UNCHANGED <<ceiling, btotal, nudge, inputs>>
    BY <1>6 DEF AccountModelRequest
  <2>4. /\ cost' \in [model : Nat, runtime : Nat, known : BOOLEAN]
        /\ thr' \in [BudgetThreads -> ThrType]
        /\ cost'.runtime = cost.runtime /\ cost'.model >= cost.model
        /\ cost'.known => cost.known
        /\ \A s \in BudgetThreads : thr'[s].paused = thr[s].paused
        /\ \A s \in BudgetThreads : s # t => thr'[s].model = thr[s].model
        /\ Recorded(t) => cost' = cost /\ thr' = thr
        /\ ~Recorded(t) => /\ cost'.known => cost'.model = cost.model + 1
                           /\ thr'[t].model \in {thr[t].model, thr[t].model + 1}
    <3>1. CASE Recorded(t)
      <4>1. cost' = cost /\ thr' = thr
        BY <1>6, <3>1 DEF AccountModelRequest
      <4>2. cost.model \in Nat
        BY <1>0
      <4> QED BY <1>0, <3>1, <4>1, <4>2
    <3>2. CASE ~Recorded(t)
      <4>1. cost' = [cost EXCEPT !.model = IF known THEN @ + 1 ELSE @, !.known = @ /\ known]
        BY <1>6, <3>2 DEF AccountModelRequest
      <4>2. /\ cost' \in [model : Nat, runtime : Nat, known : BOOLEAN]
            /\ cost'.runtime = cost.runtime /\ cost'.model >= cost.model
            /\ cost'.known => cost.known
            /\ cost'.known => cost'.model = cost.model + 1
        <5>1. /\ cost.model \in Nat /\ cost.model + 1 \in Nat /\ cost.known \in BOOLEAN
              /\ cost.model + 1 >= cost.model /\ cost.model >= cost.model
          BY <1>0
        <5>2. CASE known
          <6>1. cost' = [cost EXCEPT !.model = cost.model + 1]
            BY <1>0, <4>1, <5>1, <5>2
          <6> QED BY <1>0, <5>1, <6>1
        <5>3. CASE ~known
          <6>1. cost' = [cost EXCEPT !.known = FALSE]
            BY <1>0, <4>1, <5>1, <5>3
          <6> QED BY <1>0, <5>1, <6>1
        <5> QED BY <5>2, <5>3
      <4>3. thr' = thr \/ thr' = [thr EXCEPT ![t].model = @ + 1]
        BY <1>6, <3>2 DEF AccountModelRequest
      <4>4. /\ thr' \in [BudgetThreads -> ThrType]
            /\ \A s \in BudgetThreads : thr'[s].paused = thr[s].paused
            /\ \A s \in BudgetThreads : s # t => thr'[s].model = thr[s].model
            /\ thr'[t].model \in {thr[t].model, thr[t].model + 1}
        BY <1>0, <4>3 DEF ThrType
      <4> QED BY <3>2, <4>2, <4>4
    <3> QED BY <3>1, <3>2
  \* the record is the Thread's own, so a repetition adds none
  <2>5. Recorded(t) => usage' = usage
    <3> SUFFICES ASSUME Recorded(t) PROVE u \in usage
      BY <2>1
    <3>1. PICK v \in usage : v[1] = turn[t].req
      BY DEF Recorded
    <3>2. v[2] = t /\ v \in Nat \X BudgetThreads
      BY <1>0, <2>1, <3>1 DEF RequestsAreOwned
    <3> QED BY <3>1, <3>2
  <2>6. ~Recorded(t) => u \notin usage
    BY DEF Recorded
  <2>7. usage' \subseteq Nat \X BudgetThreads /\ IsFiniteSet(usage')
    BY <1>0, <2>1, FS_AddElement
  <2>8. RequestsPaidOnce'
    <3>1. CASE Recorded(t)
      BY <2>4, <2>5, <3>1 DEF RequestsPaidOnce
    <3>2. CASE ~Recorded(t)
      <4> DEFINE of(s, U) == {v \in U : v[2] = s}
      <4>1. Cardinality(usage') = Cardinality(usage) + 1
        BY <1>0, <2>1, <2>6, <3>2, FS_AddElement
      <4>2. cost'.known => cost'.model = Cardinality(usage')
        BY <2>4, <3>2, <4>1 DEF RequestsPaidOnce
      <4>3. ASSUME NEW s \in BudgetThreads PROVE thr'[s].model <= Cardinality(of(s, usage'))
        <5>1. thr[s].model <= Cardinality(of(s, usage)) /\ thr[s].model \in Nat
          BY <1>0 DEF RequestsPaidOnce, ThrType
        <5>2. IsFiniteSet(of(s, usage))
          BY <1>0, FS_Subset
        <5>3. CASE s = t
          <6>1. of(t, usage') = of(t, usage) \cup {u} /\ u \notin of(t, usage)
            BY <2>1, <2>6, <3>2
          <6>2. Cardinality(of(s, usage')) = Cardinality(of(s, usage)) + 1
            <7> HIDE DEF of, u
            <7> QED BY <5>2, <5>3, <6>1, FS_AddElement
          <6>3. Cardinality(of(s, usage)) \in Nat
            BY <5>2, FS_CardinalityType
          <6> HIDE DEF of
          <6> QED BY <2>4, <3>2, <5>1, <5>3, <6>2, <6>3
        <5>4. CASE s # t
          <6>1. of(s, usage') = of(s, usage)
            BY <2>1, <5>4
          <6> HIDE DEF of
          <6> QED BY <2>4, <5>1, <5>4, <6>1
        <5> QED BY <5>3, <5>4
      <4> QED BY <4>2, <4>3 DEF RequestsPaidOnce
    <3> QED BY <3>1, <3>2
  <2>9. RequestsAreOwned'
    <3> SUFFICES ASSUME NEW s \in BudgetThreads, turn'[s].pc = "account"
                 PROVE  /\ \A q \in BudgetThreads : turn'[q].pc = "account" /\ turn'[q].req = turn'[s].req => q = s
                        /\ \A v \in usage' : v[1] = turn'[s].req => v[2] = s
      BY DEF RequestsAreOwned
    <3>1. turn'[s] = turn[s]
      BY <2>2, Zenon
    <3>2. \A q \in BudgetThreads : turn'[q].pc = "account" => turn[q].pc = "account"
      BY <2>2
    <3>3. turn[t].req = turn[s].req => s = t
      BY <2>1, <3>1 DEF RequestsAreOwned
    <3> QED BY <2>1, <2>2, <3>1, <3>2, <3>3 DEF RequestsAreOwned
  <2>10. BudgetPauseResumes'
    BY <2>1, <2>2, <2>3, <2>4 DEF BudgetPauseResumes
  <2>11. PausedWhileReached'
    <3>1. /\ cost.model \in Nat /\ cost.runtime \in Nat /\ cost'.model \in Nat
      BY <1>0, <2>4
    <3> QED BY <1>0, <2>3, <2>4, <3>1 DEF PausedWhileReached, BudgetReached, Consumed
  <2> QED BY <1>0, <2>2, <2>3, <2>4, <2>7, <2>8, <2>9, <2>10, <2>11 DEF BudgetTyped
<1>7. ASSUME NEW t \in BudgetThreads, NEW kind \in {"model", "advisor"}, NextRequest(t, kind)
      PROVE  BudgetInv'
  <2>1. /\ turn' \in [BudgetThreads -> TurnType]
        /\ \A s \in BudgetThreads : s # t => turn'[s] = turn[s]
        /\ turn'[t].pc = "admit" /\ turn[t].pc = "next"
    BY <1>0, <1>7 DEF NextRequest, TurnType
  <2>2. UNCHANGED <<ceiling, cost, thr, btotal, usage, nudge, inputs>>
    BY <1>7 DEF NextRequest
  <2>3. RequestsAreOwned'
    BY <2>1, <2>2 DEF RequestsAreOwned
  <2>4. BudgetPauseResumes'
    BY <2>1, <2>2 DEF BudgetPauseResumes
  <2> QED BY <2>1, <2>2, <2>3, <2>4, SameAccount DEF BudgetTyped, PausedWhileReached, BudgetReached, Consumed
<1>8. CASE AdmitUserMessage
  <2>1. Coordinator \in BudgetThreads
    BY DEF BudgetThreads
  <2>2. /\ thr' \in [BudgetThreads -> ThrType]
        /\ \A s \in BudgetThreads : thr'[s].model = thr[s].model /\ thr'[s].paused = thr[s].paused
    BY <1>0, <1>8, <2>1 DEF AdmitUserMessage, Put, ThrType
  <2>3. /\ nudge' \in [BudgetThreads -> BOOLEAN]
        /\ \A s \in BudgetThreads : nudge[s] => nudge'[s]
    BY <1>0, <1>8 DEF AdmitUserMessage
  <2>4. UNCHANGED <<ceiling, cost, usage, turn>>
    BY <1>8 DEF AdmitUserMessage
  <2>5. BudgetPauseResumes'
    BY <2>2, <2>3, <2>4 DEF BudgetPauseResumes
  <2> QED BY <2>2, <2>3, <2>4, <2>5, SameAccount DEF BudgetTyped, RequestsAreOwned, PausedWhileReached, BudgetReached, Consumed
<1>9. CASE AccrueRuntime
  <2>1. /\ cost' \in [model : Nat, runtime : Nat, known : BOOLEAN]
        /\ cost'.model = cost.model /\ cost'.known = cost.known /\ cost'.runtime = cost.runtime + 1
    BY <1>0, <1>9 DEF AccrueRuntime
  <2>2. UNCHANGED <<ceiling, thr, btotal, usage, turn, nudge, inputs>>
    BY <1>9 DEF AccrueRuntime
  <2>3. PausedWhileReached'
    BY <1>0, <2>1, <2>2 DEF PausedWhileReached, BudgetReached, Consumed
  <2> QED BY <2>1, <2>2, <2>3, SameAccount DEF BudgetTyped, RequestsAreOwned, BudgetPauseResumes
<1>10. ASSUME NEW new \in Ceilings, UpdateBudget(new) PROVE BudgetInv'
  <2>1. /\ thr' \in [BudgetThreads -> ThrType]
        /\ \A s \in BudgetThreads : thr'[s].model = thr[s].model /\ ~thr'[s].paused
    <3>1. CASE \E s \in BudgetThreads : thr[s].paused
      <4>1. thr' = [s \in BudgetThreads |-> IF thr[s].paused
                     THEN [thr[s] EXCEPT !.paused = FALSE, !.status = "running"] ELSE thr[s]]
        BY <1>10, <3>1 DEF UpdateBudget, Put
      <4>2. ASSUME NEW s \in BudgetThreads
            PROVE  /\ thr'[s] \in ThrType /\ thr'[s].model = thr[s].model /\ ~thr'[s].paused
        BY <1>0, <4>1 DEF ThrType
      <4> QED BY <4>1, <4>2
    <3>2. CASE \A s \in BudgetThreads : ~thr[s].paused
      BY <1>0, <1>10, <3>2 DEF UpdateBudget
    <3> QED BY <3>1, <3>2
  <2>2. /\ nudge' \in [BudgetThreads -> BOOLEAN]
        /\ \A s \in BudgetThreads : nudge[s] \/ thr[s].paused => nudge'[s]
    BY <1>0, <1>10 DEF UpdateBudget, Resumed
  <2>3. UNCHANGED <<cost, usage, turn, inputs>> /\ ceiling' \in Nat
    BY <1>10, BudgetAssumption DEF UpdateBudget
  <2>4. BudgetPauseResumes'
    BY <2>1, <2>2, <2>3 DEF BudgetPauseResumes
  <2> QED BY <2>1, <2>2, <2>3, <2>4, SameAccount DEF BudgetTyped, RequestsAreOwned, PausedWhileReached
<1>11. CASE UNCHANGED budgetVars
  BY <1>11, SameAccount DEF budgetVars, BudgetTyped, RequestsAreOwned, PausedWhileReached, BudgetReached,
                            Consumed, BudgetPauseResumes
<1> QED
  BY <1>1, <1>2, <1>3, <1>4, <1>5, <1>6, <1>7, <1>8, <1>9, <1>10, <1>11 DEF BudgetNext

\* A request is paid once however often its accounting is retried, no Thread is
\* charged more than its own requests, and a Thread that waits for the budget is
\* marked for the resume or has a wakeup on its way, for any ceilings and any
\* number of Threads and requests.
THEOREM BudgetExact == BudgetSpec => []BudgetIsExact
<1>1. BudgetInv => BudgetIsExact
  BY DEF BudgetInv, BudgetIsExact
<1> QED BY <1>1, BudgetInitInv, BudgetStep, PTL DEF BudgetSpec

-----------------------------------------------------------------------------
(* Deployment                                                              *)

\* the deployments row
Row == [status : {"active", "paused"}, reason : {"none", "manual", "error"}, archived : BOOLEAN,
        scheduled : BOOLEAN, upcoming : Nat, nextRun : Nat, claimed : Nat, updated : Nat]
\* the replicas and the client that start runs
Callers == Schedulers \cup {ManualRunner}
\* how a run ends: created, a failure that pauses the Deployment, another failure
Failures == {"none", "pausing", "other"}
\* RunScheduled of a replica, or Run of the client, under way
CallerType ==
    [pc : {"idle", "lookup", "read", "create", "failed", "pause", "recover", "complete", "advance"},
     at : Nat, error : Failures, upcoming : Nat, created : Nat]
\* a row of deployment_runs
RunType == [at : Nat, error : Failures, created : Nat]
\* an Update between its read and its write
EditorType == [pc : {"write"}, read : Row, scheduled : BOOLEAN, upcoming : Nat]

\* what the variables hold
DeployTyped ==
    /\ depNow \in Nat \ {0} /\ dep \in Row /\ runs \in SUBSET RunType
    /\ caller \in [Callers -> CallerType] /\ edits \in Nat
    /\ editor = NoEditor \/ editor \in EditorType

\* status and reason agree, and the columns follow the body
Derived(d) ==
    /\ d.status = "active" <=> d.reason = "none"
    /\ d.scheduled /\ ~d.archived <=> d.upcoming # 0
    /\ d.nextRun = DeploymentNextRun(d)

\* what the editor may rely on when it writes
EditorKnows ==
    editor.pc = "write" =>
        /\ ~editor.read.archived /\ Derived(editor.read)
        /\ editor.read.scheduled = dep.scheduled /\ editor.read.updated <= dep.updated
        /\ editor.scheduled <=> editor.upcoming # 0
        /\ editor.read.updated = dep.updated =>
             /\ editor.read.status = dep.status /\ editor.read.reason = dep.reason
             /\ editor.read.archived = dep.archived

\* the next occurrence u is none, or comes after the given one
Beyond(u, at) == u = 0 \/ u > at

\* the occurrence is not the next one any more, and will not become it again
Overtaken(at) ==
    /\ Beyond(dep.upcoming, at)
    /\ editor.pc = "write" /\ editor.read.updated = dep.updated => Beyond(editor.upcoming, at)

\* what a run may rely on: its occurrence was due, a run it inserts is not stamped
\* earlier, and completeSchedule moves the row forward, or the row has left the
\* occurrence for good and the comparison under the lock will refuse the write
CallerKnows(c) ==
    /\ caller[c].at <= depNow
    /\ caller[c].pc \in {"create", "failed"} => caller[c].at <= caller[c].created
    /\ caller[c].pc = "advance" =>
         caller[c].upcoming > caller[c].at \/ (caller[c].upcoming = 0 /\ Overtaken(caller[c].at))
    /\ editor.pc = "write" /\ ~editor.read.scheduled => Beyond(editor.upcoming, caller[c].at)

\* the inductive invariant of a Deployment
DeployInv ==
    /\ DeployTyped /\ Derived(dep) /\ OneRunPerOccurrence /\ EditorKnows
    /\ \A c \in Callers : CallerKnows(c)

\* The next occurrence lies strictly after the given time, for any period.
LEMMA NextIsLater ==
    ASSUME NEW t \in Nat
    PROVE  NextOccurrence(t) \in Nat /\ NextOccurrence(t) > t
  <1> DEFINE q == t \div Period
  <1>1. Period \in Nat \ {0}
    BY DeploymentAssumption
  <1>2. q \in Nat /\ t = Period * q + (t % Period) /\ t % Period \in 0..(Period - 1)
    BY <1>1
  <1> HIDE DEF q
  <1>3. (q + 1) * Period = Period * q + Period /\ Period * q \in Nat
    BY <1>1, <1>2
  <1>4. (q + 1) * Period \in Nat /\ (q + 1) * Period > t
    BY <1>1, <1>2, <1>3
  <1> QED BY <1>4 DEF NextOccurrence, q

\* What DeploymentRepository.Update leaves of a body.
LEMMA WrittenRow ==
    ASSUME NEW d \in Row
    PROVE  /\ Written(d) \in Row /\ Written(d).nextRun = DeploymentNextRun(Written(d))
           /\ Written(d).status = d.status /\ Written(d).reason = d.reason
           /\ Written(d).archived = d.archived /\ Written(d).scheduled = d.scheduled
           /\ Written(d).upcoming = d.upcoming /\ Written(d).updated = d.updated
  BY DEF Written, DeploymentNextRun, Row

\* Every change of a body is stamped later than the one before.
LEMMA LaterChange ==
    ASSUME NEW u \in Nat, depNow \in Nat
    PROVE  ChangedAt(u) \in Nat /\ ChangedAt(u) > u /\ ChangedAt(u) >= depNow
  BY DEF ChangedAt

\* A step that leaves the schedule and the editor alone, and may change the row as
\* the optimistic check wants it: a change of the status comes with a later stamp.
RowMoves ==
    /\ dep' \in Row /\ Derived(dep') /\ dep'.scheduled = dep.scheduled /\ dep'.updated >= dep.updated
    /\ dep'.updated = dep.updated =>
         dep'.status = dep.status /\ dep'.reason = dep.reason /\ dep'.archived = dep.archived

\* a caller that does not move learns nothing that it should have known
StaysPut(c) ==
    /\ caller'[c] = caller[c]
    /\ caller[c].pc = "advance" /\ caller[c].upcoming = 0 => Beyond(dep'.upcoming, caller[c].at)

\* The invariant survives such a step when every caller stays put or keeps what
\* it may rely on.
LEMMA RowStep ==
    ASSUME DeployInv, RowMoves, UNCHANGED <<depNow, editor>>, edits' \in Nat,
           runs' \in SUBSET RunType, OneRunPerOccurrence', caller' \in [Callers -> CallerType],
           \A c \in Callers : CallerKnows(c)' \/ StaysPut(c)
    PROVE  DeployInv'
  <1>1. DeployTyped'
    BY DEF DeployInv, DeployTyped, RowMoves, NoEditor, EditorType
  <1>2. Derived(dep)'
    BY DEF RowMoves, Derived, DeploymentNextRun
  <1>3. /\ editor.pc = "write" => editor \in EditorType /\ editor.read.updated \in Nat
        /\ dep \in Row /\ dep.updated \in Nat /\ dep'.updated \in Nat /\ depNow \in Nat
    BY DEF DeployInv, DeployTyped, NoEditor, EditorType, RowMoves, Row
  <1>4. EditorKnows'
    BY <1>3 DEF DeployInv, EditorKnows, RowMoves, Derived, DeploymentNextRun
  <1>5. ASSUME NEW c \in Callers PROVE CallerKnows(c)'
    <2>1. CASE CallerKnows(c)'
      BY <2>1
    <2>2. CASE StaysPut(c)
      <3>1. CallerKnows(c) /\ caller'[c] = caller[c]
        BY <2>2 DEF DeployInv, StaysPut
      <3>2. ASSUME caller[c].pc = "advance", caller[c].upcoming = 0, Overtaken(caller[c].at)
            PROVE  Overtaken(caller[c].at)'
        <4>1. Beyond(dep'.upcoming, caller[c].at)
          BY <2>2, <3>2 DEF StaysPut
        <4>2. editor'.pc = "write" /\ editor'.read.updated = dep'.updated
                => Beyond(editor'.upcoming, caller[c].at)
          <5>1. SUFFICES ASSUME editor.pc = "write", editor.read.updated = dep'.updated
                         PROVE  Beyond(editor.upcoming, caller[c].at)
            OBVIOUS
          <5>2. editor.read.updated = dep.updated
            BY <1>3, <5>1 DEF RowMoves, DeployInv, EditorKnows
          <5> QED BY <3>2, <5>1, <5>2 DEF Overtaken
        <4> QED BY <3>1, <4>1, <4>2 DEF Overtaken
      <3>3. /\ caller[c].at <= depNow
            /\ caller[c].pc \in {"create", "failed"} => caller[c].at <= caller[c].created
            /\ editor.pc = "write" /\ ~editor.read.scheduled => Beyond(editor.upcoming, caller[c].at)
        BY <3>1 DEF CallerKnows
      <3>4. caller[c].pc = "advance" => caller[c].upcoming > caller[c].at
              \/ (caller[c].upcoming = 0 /\ Overtaken(caller[c].at)')
        BY <3>1, <3>2 DEF CallerKnows
      <3> QED BY <3>1, <3>3, <3>4 DEF CallerKnows
    <2> QED BY <2>1, <2>2
  <1> QED BY <1>1, <1>2, <1>4, <1>5 DEF DeployInv

\* A step of one caller that ends short of "advance".
LEMMA CallerStep ==
    ASSUME DeployInv, NEW c \in Callers, NEW k \in CallerType, caller' = [caller EXCEPT ![c] = k],
           RowMoves, UNCHANGED <<depNow, editor>>, edits' \in Nat,
           dep'.upcoming = dep.upcoming \/ \A d \in Callers \ {c} :
             caller[d].pc = "advance" /\ caller[d].upcoming = 0 => Beyond(dep'.upcoming, caller[d].at),
           runs' \in SUBSET RunType, OneRunPerOccurrence',
           k.at \in {0, caller[c].at}, k.pc # "advance",
           k.pc \in {"create", "failed"} => k.at <= k.created
    PROVE  DeployInv'
  <1>1. caller' \in [Callers -> CallerType] /\ caller'[c] = k
        /\ \A d \in Callers \ {c} : caller'[d] = caller[d]
    BY DEF DeployInv, DeployTyped
  <1>2. CallerKnows(c) /\ depNow \in Nat /\ caller[c] \in CallerType /\ caller[c].at \in Nat
        /\ (editor.pc = "write" => editor.upcoming \in Nat)
    BY DEF DeployInv, DeployTyped, CallerType, NoEditor, EditorType
  <1>3. CallerKnows(c)'
    BY <1>1, <1>2 DEF CallerKnows, Beyond
  <1>4. ASSUME NEW d \in Callers \ {c}, caller[d].pc = "advance", caller[d].upcoming = 0
        PROVE  Beyond(dep'.upcoming, caller[d].at)
    <2>1. CallerKnows(d) /\ caller[d] \in CallerType
      BY DEF DeployInv, DeployTyped
    <2>2. Beyond(dep.upcoming, caller[d].at)
      BY <1>4, <2>1 DEF CallerKnows, Overtaken, CallerType
    <2> QED BY <1>4, <2>2
  <1> QED BY <1>1, <1>3, <1>4, RowStep DEF StaysPut

\* A call of the user that rewrites the row under its lock keeps the invariant.
LEMMA EditStep ==
    ASSUME DeployInv, NEW d \in Row, Edit(d), Derived([d EXCEPT !.nextRun = DeploymentNextRun(d)]),
           d.scheduled = dep.scheduled,
           \A c \in Callers : caller[c].pc = "advance" /\ caller[c].upcoming = 0
             => Beyond(d.upcoming, caller[c].at)
    PROVE  DeployInv'
  <1> DEFINE e == [d EXCEPT !.updated = ChangedAt(dep.updated)]
  <1>1. /\ dep' = Written(e) /\ edits' = edits + 1 /\ edits \in Nat
        /\ UNCHANGED <<depNow, runs, caller, editor, calls>>
    BY DEF Edit, DeployInv, DeployTyped
  <1>2. dep.updated \in Nat /\ depNow \in Nat
    BY DEF DeployInv, DeployTyped, Row
  <1>3. ChangedAt(dep.updated) \in Nat /\ ChangedAt(dep.updated) > dep.updated
    BY <1>2, LaterChange
  <1>4. /\ e \in Row /\ e.updated > dep.updated
        /\ e.status = d.status /\ e.reason = d.reason /\ e.archived = d.archived
        /\ e.scheduled = d.scheduled /\ e.upcoming = d.upcoming
    BY <1>3 DEF Row
  <1>5. /\ d.status = "active" <=> d.reason = "none"
        /\ d.scheduled /\ ~d.archived <=> d.upcoming # 0
    BY DEF Derived, Row
  <1> HIDE DEF e
  <1>6. /\ dep' \in Row /\ dep'.updated = e.updated /\ dep'.upcoming = d.upcoming
        /\ dep'.scheduled = d.scheduled /\ Derived(dep')
    BY <1>1, <1>4, <1>5, WrittenRow DEF Derived
  <1>7. RowMoves
    BY <1>2, <1>4, <1>6 DEF RowMoves, Row
  <1>8. OneRunPerOccurrence' /\ runs' \in SUBSET RunType /\ caller' \in [Callers -> CallerType]
    BY <1>1 DEF DeployInv, DeployTyped, OneRunPerOccurrence
  <1>9. \A c \in Callers : StaysPut(c)
    BY <1>1, <1>6 DEF StaysPut
  <1> QED BY <1>1, <1>7, <1>8, <1>9, RowStep

\* Pause, Unpause and Archive keep the invariant: Unpause only moves the next
\* occurrence forward, and Archive clears it.
LEMMA UserStep ==
    ASSUME DeployInv, PauseDeployment \/ UnpauseDeployment \/ ArchiveDeployment
    PROVE  DeployInv'
  <1>1. /\ dep \in Row /\ Derived(dep) /\ depNow \in Nat /\ dep.updated \in Nat
        /\ \A c \in Callers : caller[c] \in CallerType /\ CallerKnows(c) /\ caller[c].at \in Nat
    BY DEF DeployInv, DeployTyped, Row, CallerType
  <1>2. \A c \in Callers : caller[c].pc = "advance" /\ caller[c].upcoming = 0
          => Beyond(dep.upcoming, caller[c].at)
    BY <1>1 DEF CallerKnows, Overtaken
  <1>3. CASE PauseDeployment
    <2> DEFINE d == [dep EXCEPT !.status = "paused", !.reason = "manual"]
    <2>1. Edit(d)
      BY <1>3 DEF PauseDeployment
    <2>2. /\ d \in Row /\ d.scheduled = dep.scheduled /\ d.upcoming = dep.upcoming
          /\ d.status = "paused" /\ d.reason = "manual" /\ d.archived = dep.archived
      BY <1>1 DEF Row
    <2> HIDE DEF d
    <2>3. Derived([d EXCEPT !.nextRun = DeploymentNextRun(d)])
      BY <1>1, <2>2 DEF Derived, DeploymentNextRun, Row
    <2> QED BY <1>2, <2>1, <2>2, <2>3, EditStep
  <1>4. CASE UnpauseDeployment
    <2> DEFINE n == IF dep.scheduled THEN NextOccurrence(ChangedAt(dep.updated)) ELSE dep.upcoming
               d == [dep EXCEPT !.status = "active", !.reason = "none", !.upcoming = n]
    <2>1. Edit(d) /\ ~dep.archived
      BY <1>4 DEF UnpauseDeployment
    <2>2. ChangedAt(dep.updated) \in Nat /\ ChangedAt(dep.updated) >= depNow
      BY <1>1, LaterChange
    <2>3. /\ NextOccurrence(ChangedAt(dep.updated)) \in Nat
          /\ NextOccurrence(ChangedAt(dep.updated)) > ChangedAt(dep.updated)
      BY <2>2, NextIsLater
    <2>4. n \in Nat /\ (n # 0 <=> dep.scheduled)
      BY <1>1, <2>1, <2>2, <2>3 DEF Derived, Row
    <2>5. \A c \in Callers : Beyond(n, caller[c].at)
      BY <1>1, <2>2, <2>3, <2>4 DEF Beyond, CallerKnows
    <2> HIDE DEF n
    <2>6. /\ d \in Row /\ d.scheduled = dep.scheduled /\ d.upcoming = n
          /\ d.status = "active" /\ d.reason = "none" /\ d.archived = dep.archived
      BY <1>1, <2>4 DEF Row
    <2> HIDE DEF d
    <2>7. Derived([d EXCEPT !.nextRun = DeploymentNextRun(d)])
      BY <2>1, <2>4, <2>6 DEF Derived, DeploymentNextRun, Row
    <2> QED BY <2>1, <2>5, <2>6, <2>7, EditStep
  <1>5. CASE ArchiveDeployment
    <2> DEFINE d == [dep EXCEPT !.archived = TRUE, !.upcoming = 0]
    <2>1. Edit(d)
      BY <1>5 DEF ArchiveDeployment
    <2>2. /\ d \in Row /\ d.scheduled = dep.scheduled /\ d.upcoming = 0
          /\ d.status = dep.status /\ d.reason = dep.reason /\ d.archived = TRUE
      BY <1>1 DEF Row
    <2> HIDE DEF d
    <2>3. Derived([d EXCEPT !.nextRun = DeploymentNextRun(d)])
      BY <1>1, <2>2 DEF Derived, DeploymentNextRun, Row
    <2> QED BY <2>1, <2>2, <2>3, EditStep DEF Beyond
  <1> QED BY <1>3, <1>4, <1>5

\* Update reads the row, and an editor that has just read it knows it.
LEMMA ReadForUpdateStep ==
    ASSUME DeployInv, NEW scheduled \in BOOLEAN, NEW scheduleSet \in BOOLEAN,
           ReadForUpdate(scheduled, scheduleSet)
    PROVE  DeployInv'
  <1> DEFINE u == IF scheduleSet THEN IF scheduled THEN NextOccurrence(depNow) ELSE 0 ELSE dep.upcoming
  <1>1. /\ editor' = [pc |-> "write", read |-> dep, scheduled |-> scheduled, upcoming |-> u]
        /\ ~dep.archived /\ (scheduleSet \/ scheduled = dep.scheduled) /\ edits' = edits + 1
        /\ UNCHANGED <<depNow, dep, runs, caller>>
    BY DEF ReadForUpdate
  <1>2. dep \in Row /\ Derived(dep) /\ depNow \in Nat /\ edits \in Nat
        /\ \A c \in Callers : caller[c] \in CallerType /\ CallerKnows(c) /\ caller[c].at \in Nat
    BY DEF DeployInv, DeployTyped, CallerType
  <1>3. NextOccurrence(depNow) \in Nat /\ NextOccurrence(depNow) > depNow
    BY <1>2, NextIsLater
  <1>4. u \in Nat /\ (scheduled <=> u # 0)
    BY <1>1, <1>2, <1>3 DEF Derived, Row
  <1>5. ~dep.scheduled => \A c \in Callers : Beyond(u, caller[c].at)
    BY <1>1, <1>2, <1>3 DEF Beyond, CallerKnows, Derived, Row
  <1>6. \A c \in Callers : Beyond(dep.upcoming, caller[c].at) => Beyond(u, caller[c].at)
    BY <1>1, <1>2, <1>3 DEF Beyond, CallerKnows, Derived, Row
  <1> HIDE DEF u
  <1>7. DeployTyped'
    BY <1>1, <1>2, <1>4 DEF DeployInv, DeployTyped, EditorType
  <1>8. Derived(dep)' /\ OneRunPerOccurrence'
    BY <1>1, <1>2 DEF DeployInv, Derived, DeploymentNextRun, OneRunPerOccurrence
  <1>9. EditorKnows'
    BY <1>1, <1>2, <1>4 DEF EditorKnows, Derived, DeploymentNextRun, Row
  <1>10. ASSUME NEW c \in Callers PROVE CallerKnows(c)'
    <2>1. CallerKnows(c)
      BY <1>2
    <2>2. Overtaken(caller[c].at) => Overtaken(caller[c].at)'
      BY <1>1, <1>6 DEF Overtaken, Beyond
    <2>3. editor'.pc = "write" /\ ~editor'.read.scheduled => Beyond(editor'.upcoming, caller'[c].at)
      BY <1>1, <1>5
    <2> QED BY <1>1, <2>1, <2>2, <2>3 DEF CallerKnows, Overtaken, Beyond
  <1> QED BY <1>7, <1>8, <1>9, <1>10 DEF DeployInv

\* Update writes under the lock: the stamp of the row it read tells it whether the
\* row is still that one, so it never brings back an occurrence that was overtaken.
LEMMA WriteUpdateStep ==
    ASSUME DeployInv, WriteUpdate
    PROVE  DeployInv'
  <1> DEFINE r == editor.read
             d == [r EXCEPT !.scheduled = editor.scheduled, !.upcoming = editor.upcoming,
                            !.updated = ChangedAt(r.updated)]
  <1>1. /\ editor.pc = "write" /\ editor' = NoEditor /\ NoEditor.pc = "idle"
        /\ dep' = IF ~Unchanged(r) THEN dep ELSE Written(d)
        /\ UNCHANGED <<depNow, runs, caller, edits>>
    BY DEF WriteUpdate, NoEditor
  <1>2. /\ editor \in EditorType /\ r \in Row /\ editor.scheduled \in BOOLEAN /\ editor.upcoming \in Nat
        /\ r.updated \in Nat /\ depNow \in Nat /\ dep \in Row
        /\ \A c \in Callers : caller[c] \in CallerType /\ CallerKnows(c) /\ caller[c].at \in Nat
    BY <1>1 DEF DeployInv, DeployTyped, NoEditor, EditorType, CallerType, Row
  <1>3. /\ ~r.archived /\ Derived(r) /\ (editor.scheduled <=> editor.upcoming # 0)
    BY <1>1 DEF DeployInv, EditorKnows
  <1>4. ChangedAt(r.updated) \in Nat
    BY <1>2, LaterChange
  <1> HIDE DEF r
  <1>5. /\ d \in Row /\ d.status = r.status /\ d.reason = r.reason /\ d.archived = r.archived
        /\ d.scheduled = editor.scheduled /\ d.upcoming = editor.upcoming
    BY <1>2, <1>4 DEF Row
  <1> HIDE DEF d
  <1>6. dep' \in Row /\ Derived(dep')
    <2>1. CASE ~Unchanged(r)
      BY <1>1, <1>2, <2>1 DEF DeployInv
    <2>2. CASE Unchanged(r)
      BY <1>1, <1>2, <1>3, <1>5, <2>2, WrittenRow DEF Derived
    <2> QED BY <2>1, <2>2
  <1>7. \A c \in Callers : Overtaken(caller[c].at) => Beyond(dep'.upcoming, caller[c].at)
    <2>1. CASE ~Unchanged(r)
      BY <1>1, <2>1 DEF Overtaken
    <2>2. CASE Unchanged(r)
      <3>1. dep'.upcoming = editor.upcoming /\ r.updated = dep.updated
        BY <1>1, <1>5, <2>2, WrittenRow DEF Unchanged
      <3> QED BY <1>1, <3>1 DEF Overtaken, r
    <2> QED BY <2>1, <2>2
  <1>8. DeployTyped'
    BY <1>1, <1>6 DEF DeployInv, DeployTyped
  <1>9. Derived(dep)' /\ OneRunPerOccurrence' /\ EditorKnows'
    BY <1>1, <1>6 DEF DeployInv, OneRunPerOccurrence, EditorKnows, Derived, DeploymentNextRun
  <1>10. ASSUME NEW c \in Callers PROVE CallerKnows(c)'
    BY <1>1, <1>2, <1>7 DEF CallerKnows, Overtaken
  <1> QED BY <1>8, <1>9, <1>10 DEF DeployInv

\* A row that stays is a row that moves as allowed.
LEMMA SameRow ==
    ASSUME DeployInv, UNCHANGED dep
    PROVE  RowMoves /\ dep'.upcoming = dep.upcoming
  BY DEF RowMoves, DeployInv, DeployTyped, Row

\* ClaimDue hands a due occurrence to a replica and changes the claim alone.
LEMMA ClaimStep ==
    ASSUME DeployInv, NEW c \in Schedulers, ClaimDue(c)
    PROVE  DeployInv'
  <1> DEFINE k == [NoCaller EXCEPT !.pc = "lookup", !.at = dep.nextRun]
  <1>1. /\ caller' = [caller EXCEPT ![c] = k] /\ dep' = [dep EXCEPT !.claimed = depNow]
        /\ dep.nextRun # 0 /\ dep.nextRun <= depNow /\ ~dep.archived /\ dep.status = "active"
        /\ UNCHANGED <<depNow, runs, editor, edits>>
    BY DEF ClaimDue
  <1>2. dep \in Row /\ Derived(dep) /\ depNow \in Nat /\ c \in Callers /\ caller \in [Callers -> CallerType]
        /\ edits \in Nat /\ (editor.pc = "write" => EditorKnows /\ editor \in EditorType)
    BY DEF DeployInv, DeployTyped, Callers, NoEditor, EditorType
  <1>3. k \in CallerType /\ k.pc = "lookup" /\ k.at = dep.nextRun
    BY <1>2 DEF NoCaller, CallerType, Failures, Row
  <1> HIDE DEF k
  <1>4. /\ dep' \in Row /\ dep'.status = dep.status /\ dep'.reason = dep.reason
        /\ dep'.archived = dep.archived /\ dep'.scheduled = dep.scheduled
        /\ dep'.upcoming = dep.upcoming /\ dep'.nextRun = dep.nextRun /\ dep'.updated = dep.updated
    BY <1>1, <1>2 DEF Row
  <1>5. RowMoves
    BY <1>2, <1>4 DEF RowMoves, Derived, DeploymentNextRun, Row
  <1>6. caller' \in [Callers -> CallerType] /\ caller'[c] = k
        /\ \A d \in Callers \ {c} : caller'[d] = caller[d]
    BY <1>1, <1>2, <1>3
  <1>7. CallerKnows(c)'
    <2>1. dep.scheduled
      BY <1>1, <1>2 DEF Derived, DeploymentNextRun
    <2>2. ~(editor.pc = "write" /\ ~editor.read.scheduled)
      BY <1>2, <2>1 DEF EditorKnows
    <2> QED BY <1>1, <1>3, <1>6, <2>2 DEF CallerKnows
  <1>8. \A d \in Callers \ {c} : StaysPut(d)
    <2>1. ASSUME NEW d \in Callers \ {c}, caller[d].pc = "advance", caller[d].upcoming = 0
          PROVE  Beyond(dep'.upcoming, caller[d].at)
      <3>1. CallerKnows(d) /\ caller[d] \in CallerType
        BY <1>2 DEF DeployInv
      <3> QED BY <1>4, <2>1, <3>1 DEF CallerKnows, Overtaken, CallerType
    <2> QED BY <1>6, <2>1 DEF StaysPut
  <1>9. runs' \in SUBSET RunType /\ OneRunPerOccurrence' /\ edits' \in Nat
    BY <1>1, <1>2 DEF DeployInv, DeployTyped, OneRunPerOccurrence
  <1> QED BY <1>1, <1>5, <1>6, <1>7, <1>8, <1>9, RowStep

\* A caller moves while the row and the runs stay.
LEMMA CallerOnly ==
    ASSUME DeployInv, NEW c \in Callers, NEW k \in CallerType, caller' = [caller EXCEPT ![c] = k],
           UNCHANGED <<depNow, dep, runs, editor, edits>>,
           k.at \in {0, caller[c].at}, k.pc # "advance",
           k.pc \in {"create", "failed"} => k.at <= k.created
    PROVE  DeployInv'
  <1>1. RowMoves /\ dep'.upcoming = dep.upcoming
    BY SameRow
  <1>2. runs' \in SUBSET RunType /\ OneRunPerOccurrence' /\ edits' \in Nat
    BY DEF DeployInv, DeployTyped, OneRunPerOccurrence
  <1> QED BY <1>1, <1>2, CallerStep

\* A run that only goes on keeps the invariant.
LEMMA GotoStep ==
    ASSUME DeployInv, NEW c \in Callers, NEW pc \in {"lookup", "read", "pause", "recover", "complete"},
           Goto(c, pc), UNCHANGED <<depNow, dep, runs, editor, edits>>
    PROVE  DeployInv'
  <1> DEFINE k == [caller[c] EXCEPT !.pc = pc]
  <1>1. caller' = [caller EXCEPT ![c] = k]
    BY DEF Goto, DeployInv, DeployTyped
  <1>2. k \in CallerType /\ k.pc = pc /\ k.at = caller[c].at
    BY DEF DeployInv, DeployTyped, CallerType
  <1> HIDE DEF k
  <1> QED BY <1>1, <1>2, CallerOnly

\* A run that finds its occurrence already run only takes that run's outcome.
LEMMA SettleStep ==
    ASSUME DeployInv, NEW c \in Callers, NEW r \in runs, Settle(c, r),
           UNCHANGED <<depNow, dep, runs, editor, edits>>
    PROVE  DeployInv'
  <1> DEFINE k == [caller[c] EXCEPT !.pc = "recover", !.error = r.error, !.created = r.created]
  <1>1. r.error \in Failures /\ r.created \in Nat /\ caller[c] \in CallerType
    BY DEF DeployInv, DeployTyped, RunType
  <1>2. caller' = [caller EXCEPT ![c] = k]
    BY DEF Settle, DeployInv, DeployTyped
  <1>3. k \in CallerType /\ k.pc = "recover" /\ k.at = caller[c].at
    BY <1>1 DEF CallerType
  <1> HIDE DEF k
  <1> QED BY <1>2, <1>3, CallerOnly

\* A run that ends, or whose replica crashed, leaves the row and the runs.
LEMMA IdleStep ==
    ASSUME DeployInv, NEW c \in Callers, caller' = [caller EXCEPT ![c] = NoCaller],
           UNCHANGED <<depNow, dep, runs, editor, edits>>
    PROVE  DeployInv'
  <1>1. NoCaller \in CallerType /\ NoCaller.at = 0 /\ NoCaller.pc = "idle"
    BY DEF NoCaller, CallerType, Failures
  <1> QED BY <1>1, CallerOnly

\* The run stamps its creation when it reads the row, when its occurrence is due.
LEMMA ReadDeploymentStep ==
    ASSUME DeployInv, NEW c \in Callers, ReadDeployment(c)
    PROVE  DeployInv'
  <1>1. UNCHANGED <<depNow, dep, runs, editor, edits>>
    BY DEF ReadDeployment
  <1>2. CASE caller' = [caller EXCEPT ![c] = NoCaller]
    BY <1>1, <1>2, IdleStep
  <1>3. CASE caller' = [caller EXCEPT ![c].pc = "create", ![c].created = depNow]
    <2> DEFINE k == [caller[c] EXCEPT !.pc = "create", !.created = depNow]
    <2>1. depNow \in Nat /\ caller[c] \in CallerType /\ caller[c].at <= depNow
      BY DEF DeployInv, DeployTyped, CallerKnows
    <2>2. caller' = [caller EXCEPT ![c] = k]
      BY <1>3 DEF DeployInv, DeployTyped
    <2>3. k \in CallerType /\ k.pc = "create" /\ k.at = caller[c].at /\ k.created = depNow
      BY <2>1 DEF CallerType
    <2> HIDE DEF k
    <2> QED BY <1>1, <2>1, <2>2, <2>3, CallerOnly
  <1> QED BY <1>2, <1>3 DEF ReadDeployment

\* A run row is only inserted for an occurrence that has none.
LEMMA InsertedRun ==
    ASSUME DeployInv, NEW c \in Callers, NEW e \in Failures, RunsAt(caller[c].at) = {},
           caller[c].at <= caller[c].created,
           runs' = runs \cup {[at |-> caller[c].at, error |-> e, created |-> caller[c].created]}
    PROVE  runs' \in SUBSET RunType /\ OneRunPerOccurrence'
  <1> DEFINE new == [at |-> caller[c].at, error |-> e, created |-> caller[c].created]
  <1>1. new \in RunType /\ new.at = caller[c].at /\ new.created = caller[c].created
    BY DEF DeployInv, DeployTyped, CallerType, RunType
  <1>2. \A r \in runs : new.at # 0 => r.at # new.at
    BY <1>1 DEF RunsAt
  <1> HIDE DEF new
  <1>3. runs' = runs \cup {new}
    BY DEF new
  <1> QED BY <1>1, <1>2, <1>3 DEF DeployInv, DeployTyped, OneRunPerOccurrence

\* The transaction that creates the Session inserts the run with it, or fails.
LEMMA CreateSessionStep ==
    ASSUME DeployInv, NEW c \in Callers, CreateDeploymentSession(c)
    PROVE  DeployInv'
  <1>1. /\ caller[c].pc = "create" /\ UNCHANGED <<depNow, dep, editor, edits>> /\ edits \in Nat
        /\ caller[c] \in CallerType /\ caller[c].at <= caller[c].created
    BY DEF CreateDeploymentSession, DeployInv, DeployTyped, CallerKnows
  <1>2. CASE /\ RunsAt(caller[c].at) = {}
             /\ runs' = runs \cup {[at |-> caller[c].at, error |-> "none",
                                    created |-> caller[c].created]}
             /\ Goto(c, "recover")
    <2> DEFINE k == [caller[c] EXCEPT !.pc = "recover"]
    <2>1. caller' = [caller EXCEPT ![c] = k]
      BY <1>2 DEF Goto, DeployInv, DeployTyped
    <2>2. k \in CallerType /\ k.pc = "recover" /\ k.at = caller[c].at
      BY <1>1 DEF CallerType
    <2>3. runs' \in SUBSET RunType /\ OneRunPerOccurrence'
      BY <1>1, <1>2, InsertedRun DEF Failures
    <2>4. RowMoves /\ dep'.upcoming = dep.upcoming
      BY <1>1, SameRow
    <2> HIDE DEF k
    <2> QED BY <1>1, <2>1, <2>2, <2>3, <2>4, CallerStep
  <1>3. ASSUME UNCHANGED runs, NEW e \in {"pausing", "other"},
               caller' = [caller EXCEPT ![c].pc = "failed", ![c].error = e]
        PROVE  DeployInv'
    <2> DEFINE k == [caller[c] EXCEPT !.pc = "failed", !.error = e]
    <2>1. caller' = [caller EXCEPT ![c] = k]
      BY <1>3 DEF DeployInv, DeployTyped
    <2>2. k \in CallerType /\ k.pc = "failed" /\ k.at = caller[c].at /\ k.created = caller[c].created
      BY <1>1 DEF CallerType, Failures
    <2> HIDE DEF k
    <2> QED BY <1>1, <1>3, <2>1, <2>2, CallerOnly
  <1> QED BY <1>2, <1>3 DEF CreateDeploymentSession

\* A failed run is recorded once: an occurrence that has a run is settled by it.
LEMMA CreateRunStep ==
    ASSUME DeployInv, NEW c \in Callers, CreateRun(c)
    PROVE  DeployInv'
  <1>1. /\ caller[c].pc = "failed" /\ UNCHANGED <<depNow, dep, editor, edits>> /\ edits \in Nat
        /\ caller[c] \in CallerType /\ caller[c].at <= caller[c].created
    BY DEF CreateRun, DeployInv, DeployTyped, CallerKnows
  <1>2. CASE \E r \in RunsAt(caller[c].at) : Settle(c, r) /\ UNCHANGED runs
    BY <1>1, <1>2, SettleStep DEF RunsAt
  <1>3. CASE /\ RunsAt(caller[c].at) = {}
             /\ runs' = runs \cup {[at |-> caller[c].at, error |-> caller[c].error,
                                    created |-> caller[c].created]}
             /\ Goto(c, "pause")
    <2> DEFINE k == [caller[c] EXCEPT !.pc = "pause"]
    <2>1. caller' = [caller EXCEPT ![c] = k]
      BY <1>3 DEF Goto, DeployInv, DeployTyped
    <2>2. k \in CallerType /\ k.pc = "pause" /\ k.at = caller[c].at /\ caller[c].error \in Failures
      BY <1>1 DEF CallerType
    <2>3. runs' \in SUBSET RunType /\ OneRunPerOccurrence'
      BY <1>1, <1>3, <2>2, InsertedRun
    <2>4. RowMoves /\ dep'.upcoming = dep.upcoming
      BY <1>1, SameRow
    <2> HIDE DEF k
    <2> QED BY <1>1, <2>1, <2>2, <2>3, <2>4, CallerStep
  <1> QED BY <1>2, <1>3 DEF CreateRun

\* A failure of the configuration pauses the Deployment and takes no other liberty.
LEMMA RecoverStep ==
    ASSUME DeployInv, NEW c \in Callers, RecoverScheduledFailure(c)
    PROVE  DeployInv'
  <1> DEFINE next == IF caller[c].pc = "pause" THEN "recover" ELSE "complete"
             k == IF caller[c].at = 0 THEN NoCaller ELSE [caller[c] EXCEPT !.pc = next]
  <1>1. /\ dep' = IF caller[c].error = "pausing" THEN PausedForError ELSE dep
        /\ UNCHANGED <<depNow, runs, editor, edits>> /\ edits \in Nat
        /\ caller[c] \in CallerType /\ dep \in Row /\ Derived(dep) /\ depNow \in Nat
        /\ dep.updated \in Nat
    BY DEF RecoverScheduledFailure, DeployInv, DeployTyped, Row
  <1>2. caller' = [caller EXCEPT ![c] = k]
    <2>1. caller \in [Callers -> CallerType]
      BY DEF DeployInv, DeployTyped
    <2>2. caller' = [caller EXCEPT ![c] = IF caller[c].at = 0 THEN NoCaller
                       ELSE [caller[c] EXCEPT !.pc = next]]
      BY DEF RecoverScheduledFailure
    <2> QED BY <2>2 DEF k
  <1>3. k \in CallerType /\ k.pc \in {"idle", "recover", "complete"} /\ k.at \in {0, caller[c].at}
    BY <1>1 DEF CallerType, NoCaller, Failures
  <1> HIDE DEF k
  <1>4. RowMoves /\ dep'.upcoming = dep.upcoming
    <2>1. CASE dep' = dep
      BY <2>1, SameRow
    <2>2. CASE dep' # dep
      <3> DEFINE d == [dep EXCEPT !.status = "paused", !.reason = "error",
                                  !.updated = ChangedAt(dep.updated)]
      <3>1. dep' = Written(d)
        BY <1>1, <2>2 DEF PausedForError
      <3>2. ChangedAt(dep.updated) \in Nat /\ ChangedAt(dep.updated) > dep.updated
        BY <1>1, LaterChange
      <3>3. /\ d \in Row /\ d.status = "paused" /\ d.reason = "error" /\ d.updated > dep.updated
            /\ d.archived = dep.archived /\ d.scheduled = dep.scheduled /\ d.upcoming = dep.upcoming
        BY <1>1, <3>2 DEF Row
      <3> HIDE DEF d
      <3>4. /\ dep' \in Row /\ dep'.upcoming = dep.upcoming /\ dep'.scheduled = dep.scheduled
            /\ dep'.updated > dep.updated /\ Derived(dep') /\ dep'.updated \in Nat
        BY <1>1, <3>1, <3>3, WrittenRow DEF Derived, Row
      <3> QED BY <1>1, <3>4 DEF RowMoves
    <2> QED BY <2>1, <2>2
  <1>5. runs' \in SUBSET RunType /\ OneRunPerOccurrence' /\ edits' \in Nat
    BY <1>1 DEF DeployInv, DeployTyped, OneRunPerOccurrence
  <1> QED BY <1>1, <1>2, <1>3, <1>4, <1>5, CallerStep

\* completeSchedule computes the next occurrence from a copy of the row: it lies
\* after the caller's own, unless the row it read has none, and then nobody is
\* left who could bring the caller's occurrence back.
LEMMA ReadScheduleStep ==
    ASSUME DeployInv, NEW c \in Callers, ReadSchedule(c)
    PROVE  DeployInv'
  <1> DEFINE u == IF dep.scheduled /\ ~dep.archived THEN NextOccurrence(depNow) ELSE 0
             k == [caller[c] EXCEPT !.pc = "advance", !.upcoming = u]
  <1>1. /\ UNCHANGED <<depNow, dep, runs, editor, edits>> /\ edits \in Nat /\ CallerKnows(c)
        /\ caller[c] \in CallerType /\ dep \in Row /\ Derived(dep) /\ depNow \in Nat
        /\ caller[c].at \in Nat
    BY DEF ReadSchedule, DeployInv, DeployTyped, CallerType
  <1>2. NextOccurrence(depNow) \in Nat /\ NextOccurrence(depNow) > depNow
    BY <1>1, NextIsLater
  <1>3. u \in Nat /\ (u > caller[c].at \/ (u = 0 /\ dep.upcoming = 0))
    BY <1>1, <1>2 DEF CallerKnows, Derived, Row
  <1>4. caller' = [caller EXCEPT ![c] = k]
    BY DEF ReadSchedule, DeployInv, DeployTyped
  <1> HIDE DEF u
  <1>5. k \in CallerType /\ k.pc = "advance" /\ k.upcoming = u /\ k.at = caller[c].at
    BY <1>1, <1>3 DEF CallerType
  <1> HIDE DEF k
  <1>6. caller' \in [Callers -> CallerType] /\ caller'[c] = k
        /\ \A d \in Callers \ {c} : caller'[d] = caller[d]
    BY <1>4, <1>5 DEF DeployInv, DeployTyped
  <1>7. RowMoves /\ dep'.upcoming = dep.upcoming
    BY <1>1, SameRow
  <1>8. CallerKnows(c)'
    <2>1. ASSUME u = 0, dep.upcoming = 0 PROVE Overtaken(caller[c].at)
      <3>1. SUFFICES ASSUME editor.pc = "write", editor.read.updated = dep.updated
                     PROVE  Beyond(editor.upcoming, caller[c].at)
        BY <2>1 DEF Overtaken, Beyond
      <3>2. ~editor.read.scheduled
        BY <1>1, <2>1, <3>1 DEF DeployInv, EditorKnows, Derived
      <3> QED BY <1>1, <3>1, <3>2 DEF CallerKnows
    <2>2. caller'[c].at = caller[c].at /\ caller'[c].pc = "advance" /\ caller'[c].upcoming = u
      BY <1>5, <1>6
    <2>3. Overtaken(caller[c].at) => Overtaken(caller[c].at)'
      BY <1>1, <2>2 DEF Overtaken, Beyond
    <2> HIDE DEF u
    <2> QED BY <1>1, <1>3, <2>1, <2>2, <2>3 DEF CallerKnows
  <1>9. \A d \in Callers \ {c} : StaysPut(d)
    <2>1. ASSUME NEW d \in Callers \ {c}, caller[d].pc = "advance", caller[d].upcoming = 0
          PROVE  Beyond(dep'.upcoming, caller[d].at)
      <3>1. CallerKnows(d) /\ caller[d] \in CallerType
        BY DEF DeployInv, DeployTyped
      <3> QED BY <1>7, <2>1, <3>1 DEF CallerKnows, Overtaken, CallerType
    <2> QED BY <1>6, <2>1 DEF StaysPut
  <1>10. runs' \in SUBSET RunType /\ OneRunPerOccurrence' /\ edits' \in Nat
    BY <1>1 DEF DeployInv, DeployTyped, OneRunPerOccurrence
  <1> QED BY <1>1, <1>6, <1>7, <1>8, <1>9, <1>10, RowStep

\* CompleteSchedule writes only when the row still names the caller's occurrence,
\* which an overtaken one never does again.
LEMMA CompleteScheduleStep ==
    ASSUME DeployInv, NEW c \in Callers, CompleteSchedule(c)
    PROVE  DeployInv'
  <1>1. /\ UNCHANGED <<depNow, runs, editor, edits>> /\ edits \in Nat /\ CallerKnows(c)
        /\ caller[c].pc = "advance" /\ caller' = [caller EXCEPT ![c] = NoCaller]
        /\ caller[c] \in CallerType /\ dep \in Row /\ Derived(dep) /\ depNow \in Nat
    BY DEF CompleteSchedule, DeployInv, DeployTyped
  <1>2. NoCaller \in CallerType /\ NoCaller.at = 0 /\ NoCaller.pc = "idle"
    BY DEF NoCaller, CallerType, Failures
  <1>3. CASE dep' = dep
    BY <1>1, <1>2, <1>3, CallerOnly
  <1>4. CASE dep' # dep
    <2> DEFINE newest == IF dep.updated < caller[c].created THEN caller[c].created ELSE dep.updated
               d == [dep EXCEPT !.upcoming = caller[c].upcoming, !.updated = newest]
    <2>1. dep' = Written(d) /\ StillDue(c) /\ dep.scheduled
      BY <1>4 DEF CompleteSchedule
    <2>2. ~dep.archived /\ dep.upcoming = caller[c].at /\ caller[c].at # 0
      BY <1>1, <2>1 DEF StillDue, Derived, DeploymentNextRun, Row
    <2>3. caller[c].upcoming > caller[c].at
      BY <1>1, <2>2 DEF CallerKnows, Overtaken, Beyond, CallerType
    <2>4. newest \in Nat /\ newest >= dep.updated
      BY <1>1 DEF CallerType, Row
    <2> HIDE DEF newest
    <2>5. /\ d \in Row /\ d.status = dep.status /\ d.reason = dep.reason /\ d.updated = newest
          /\ d.archived = dep.archived /\ d.scheduled = dep.scheduled
          /\ d.upcoming = caller[c].upcoming
      BY <1>1, <2>4 DEF Row, CallerType
    <2> HIDE DEF d
    <2>6. /\ dep' \in Row /\ Derived(dep') /\ dep'.upcoming = caller[c].upcoming
          /\ dep'.scheduled = dep.scheduled /\ dep'.updated = newest /\ dep'.status = dep.status
          /\ dep'.reason = dep.reason /\ dep'.archived = dep.archived
      <3>1. Written(d) \in Row /\ caller[c].upcoming # 0
        BY <1>1, <2>3, <2>5, WrittenRow DEF CallerType
      <3>2. /\ dep'.upcoming = caller[c].upcoming /\ dep'.scheduled = dep.scheduled
            /\ dep'.updated = newest /\ dep'.status = dep.status
            /\ dep'.reason = dep.reason /\ dep'.archived = dep.archived
            /\ dep'.nextRun = DeploymentNextRun(dep')
        BY <2>1, <2>5, WrittenRow
      <3> QED BY <1>1, <2>1, <2>2, <3>1, <3>2 DEF Derived
    <2>7. RowMoves
      BY <1>1, <2>4, <2>6 DEF RowMoves
    <2>8. \A b \in Callers \ {c} : caller[b].pc = "advance" /\ caller[b].upcoming = 0
            => Beyond(dep'.upcoming, caller[b].at)
      <3>1. ASSUME NEW b \in Callers \ {c}, caller[b].pc = "advance", caller[b].upcoming = 0
            PROVE  Beyond(dep'.upcoming, caller[b].at)
        <4>1. CallerKnows(b) /\ caller[b] \in CallerType
          BY DEF DeployInv, DeployTyped
        <4>2. dep.upcoming > caller[b].at
          BY <2>2, <3>1, <4>1 DEF CallerKnows, Overtaken, Beyond, CallerType
        <4> QED BY <1>1, <2>2, <2>3, <2>6, <4>1, <4>2 DEF Beyond, CallerType
      <3> QED BY <3>1
    <2>9. runs' \in SUBSET RunType /\ OneRunPerOccurrence' /\ edits' \in Nat
      BY <1>1 DEF DeployInv, DeployTyped, OneRunPerOccurrence
    <2> QED BY <1>1, <1>2, <2>7, <2>8, <2>9, CallerStep
  <1> QED BY <1>3, <1>4

\* The clock moves on and everything that was due stays due.
LEMMA TickStep ==
    ASSUME DeployInv, depNow' \in Nat \ {0}, depNow' >= depNow,
           UNCHANGED <<dep, runs, caller, editor, edits>>
    PROVE  DeployInv'
  <1>1. DeployTyped' /\ Derived(dep)' /\ OneRunPerOccurrence' /\ EditorKnows'
    BY DEF DeployInv, DeployTyped, Derived, DeploymentNextRun, OneRunPerOccurrence, EditorKnows
  <1>2. ASSUME NEW c \in Callers PROVE CallerKnows(c)'
    <2>1. CallerKnows(c) /\ caller[c].at \in Nat /\ depNow \in Nat
      BY DEF DeployInv, DeployTyped, CallerType
    <2> QED BY <2>1 DEF CallerKnows, Overtaken, Beyond
  <1> QED BY <1>1, <1>2 DEF DeployInv

\* A new Deployment satisfies the invariant.
LEMMA DeployInitInv == DeploymentInit => DeployInv
  <1> SUFFICES ASSUME DeploymentInit PROVE DeployInv
    OBVIOUS
  <1>1. NextOccurrence(1) \in Nat /\ NextOccurrence(1) > 1
    BY NextIsLater
  <1>2. dep \in Row /\ Derived(dep)
    BY <1>1 DEF DeploymentInit, Row, Derived, DeploymentNextRun
  <1>3. NoCaller \in CallerType /\ NoCaller.at = 0 /\ NoCaller.pc = "idle"
    BY DEF NoCaller, CallerType, Failures
  <1>4. caller \in [Callers -> CallerType] /\ \A c \in Callers : caller[c] = NoCaller
    BY <1>3 DEF DeploymentInit, Callers
  <1>5. DeployTyped
    BY <1>2, <1>4 DEF DeploymentInit, DeployTyped
  <1>6. OneRunPerOccurrence /\ EditorKnows
    BY DEF DeploymentInit, OneRunPerOccurrence, EditorKnows, NoEditor
  <1>7. \A c \in Callers : CallerKnows(c)
    BY <1>3, <1>4 DEF DeploymentInit, CallerKnows, NoEditor
  <1> QED BY <1>2, <1>5, <1>6, <1>7 DEF DeployInv

\* Every step of the user, of the replicas and of the client keeps the invariant.
LEMMA DeployStep == DeployInv /\ [DeploymentNext]_depVars => DeployInv'
  <1> SUFFICES ASSUME DeployInv, [DeploymentNext]_depVars PROVE DeployInv'
    OBVIOUS
  <1>1. CASE PauseDeployment \/ UnpauseDeployment \/ ArchiveDeployment
    BY <1>1, UserStep
  <1>2. CASE WriteUpdate
    BY <1>2, WriteUpdateStep
  <1>3. CASE \E scheduled, scheduleSet \in BOOLEAN : ReadForUpdate(scheduled, scheduleSet)
    BY <1>3, ReadForUpdateStep
  <1>4. CASE \E c \in Schedulers : ClaimDue(c)
    BY <1>4, ClaimStep
  <1>5. CASE StartManualRun
    <2>1. ManualRunner \in Callers /\ Goto(ManualRunner, "read") /\ UNCHANGED <<depNow, dep, runs, editor,
            edits>>
      BY <1>5 DEF StartManualRun, Callers
    <2> QED BY <2>1, GotoStep
  <1>6. CASE DeployTick
    <2>1. depNow \in Nat \ {0}
      BY DEF DeployInv, DeployTyped
    <2> QED BY <1>6, <2>1, TickStep DEF DeployTick
  <1>7. ASSUME NEW c \in Callers, RunStep(c) PROVE DeployInv'
    <2>1. CASE LookupRun(c)
      <3>1. UNCHANGED <<depNow, dep, runs, editor, edits>>
        BY <2>1 DEF LookupRun
      <3>2. CASE \E r \in RunsAt(caller[c].at) : Settle(c, r)
        BY <3>1, <3>2, SettleStep DEF RunsAt
      <3>3. CASE Goto(c, "read")
        BY <3>1, <3>3, GotoStep
      <3> QED BY <2>1, <3>2, <3>3 DEF LookupRun
    <2>2. CASE ReadDeployment(c)
      BY <2>2, ReadDeploymentStep
    <2>3. CASE CreateDeploymentSession(c)
      BY <2>3, CreateSessionStep
    <2>4. CASE CreateRun(c)
      BY <2>4, CreateRunStep
    <2>5. CASE RecoverScheduledFailure(c)
      BY <2>5, RecoverStep
    <2>6. CASE ReadSchedule(c)
      BY <2>6, ReadScheduleStep
    <2>7. CASE CompleteSchedule(c)
      BY <2>7, CompleteScheduleStep
    <2>8. CASE RunAbandoned(c)
      BY <2>8, IdleStep DEF RunAbandoned
    <2> QED BY <1>7, <2>1, <2>2, <2>3, <2>4, <2>5, <2>6, <2>7, <2>8 DEF RunStep
  <1>8. CASE UNCHANGED depVars
    <2>1. depNow \in Nat \ {0}
      BY DEF DeployInv, DeployTyped
    <2> QED BY <1>8, <2>1, TickStep DEF depVars
  <1> QED BY <1>1, <1>2, <1>3, <1>4, <1>5, <1>6, <1>7, <1>8 DEF DeploymentNext, Callers

\* No step but a call of the user takes the row out of an explicit pause.
LEMMA PauseHolds ==
    ASSUME DeployInv, [DeploymentNext]_depVars, dep.reason = "manual", dep'.reason # "manual"
    PROVE  edits' = edits + 1
  <1>1. dep \in Row /\ Derived(dep) /\ dep.status = "paused"
    BY DEF DeployInv, DeployTyped, Derived, Row
  <1>2. CASE PauseDeployment \/ UnpauseDeployment \/ ArchiveDeployment
    BY <1>2 DEF PauseDeployment, UnpauseDeployment, ArchiveDeployment, Edit
  <1>3. CASE WriteUpdate
    <2> DEFINE d == [editor.read EXCEPT !.scheduled = editor.scheduled, !.upcoming = editor.upcoming,
                                        !.updated = ChangedAt(editor.read.updated)]
    <2>1. editor.pc = "write" /\ dep' = (IF ~Unchanged(editor.read) THEN dep ELSE Written(d))
      BY <1>3 DEF WriteUpdate
    <2>2. Unchanged(editor.read) /\ dep' = Written(d)
      BY <2>1
    <2>3. editor.read \in Row /\ editor.scheduled \in BOOLEAN /\ editor.upcoming \in Nat /\ depNow \in Nat
      BY <2>1 DEF DeployInv, DeployTyped, NoEditor, EditorType
    <2>4. ChangedAt(editor.read.updated) \in Nat
      BY <2>3, LaterChange DEF Row
    <2>5. d \in Row /\ d.reason = editor.read.reason
      BY <2>3, <2>4 DEF Row
    <2> HIDE DEF d
    <2>6. dep'.reason = editor.read.reason
      BY <2>2, <2>5, WrittenRow
    <2>7. editor.read.reason = dep.reason
      BY <2>1, <2>2 DEF DeployInv, EditorKnows, Unchanged
    <2> QED BY <2>6, <2>7
  <1>4. CASE \E c \in Schedulers : ClaimDue(c)
    BY <1>1, <1>4 DEF ClaimDue, Row
  <1>5. CASE \E scheduled, scheduleSet \in BOOLEAN : ReadForUpdate(scheduled, scheduleSet)
    BY <1>5 DEF ReadForUpdate
  <1>6. CASE StartManualRun \/ DeployTick \/ UNCHANGED depVars
    BY <1>6 DEF StartManualRun, DeployTick, depVars
  <1>7. ASSUME NEW c \in Callers, RunStep(c) PROVE FALSE
    <2>1. CASE LookupRun(c) \/ ReadDeployment(c) \/ CreateDeploymentSession(c) \/ CreateRun(c)
                 \/ ReadSchedule(c) \/ RunAbandoned(c)
      BY <2>1 DEF LookupRun, ReadDeployment, CreateDeploymentSession, CreateRun, ReadSchedule, RunAbandoned
    <2>2. CASE RecoverScheduledFailure(c)
      BY <1>1, <2>2 DEF RecoverScheduledFailure, PausedForError
    <2>3. CASE CompleteSchedule(c)
      <3>1. dep' # dep => StillDue(c)
        BY <2>3 DEF CompleteSchedule
      <3> QED BY <1>1, <3>1 DEF StillDue, Derived, DeploymentNextRun
    <2> QED BY <1>7, <2>1, <2>2, <2>3 DEF RunStep
  <1> QED BY <1>2, <1>3, <1>4, <1>5, <1>6, <1>7 DEF DeploymentNext, Callers

\* An occurrence has one run for ever, however many replicas race for it and however
\* often they crash; an active Deployment with a schedule always has a next run; and
\* only the user takes it out of the pause the user put it in, for any period, any
\* number of replicas and any interleaving with the edits.
THEOREM ScheduleExact == DeploymentSpec => ScheduleIsExact
  <1>1. DeployInv => OneRunPerOccurrence /\ ScheduleStaysArmed
    BY DEF DeployInv, ScheduleStaysArmed, Derived, DeploymentNextRun, DeployTyped, Row
  <1>2. DeployInv /\ [DeploymentNext]_depVars
          => [dep.reason = "manual" /\ dep'.reason # "manual" => edits' = edits + 1]_depVars
    BY PauseHolds
  <1> QED BY <1>1, <1>2, DeployInitInv, DeployStep, PTL DEF DeploymentSpec, ScheduleIsExact, ManualPauseSticks

-----------------------------------------------------------------------------
(* The live stream                                                         *)

\* an event of the ledger, and the (request, attempt) a preview is of
EventKinds == {"start", "message", "end"}
EventType == [kind : EventKinds, req : ModelRequests, attempt : Attempts \cup {0}]
PreviewType == ModelRequests \X Attempts

\* what the stream sends: events, previews and at last that the Session is deleted
FrameType == [kind : EventKinds \cup {"preview", "deleted"}, req : ModelRequests \cup {0},
              attempt : Attempts \cup {0}]

TailPcs == {"off", "cursor", "wait", "reconcile", "forward", "closed"}
TailType == [pc : TailPcs, cursor : Nat, origin : Nat, batch : Seq(EventType),
             preview : Seq(PreviewType), prepared : SUBSET PreviewType,
             closedMessages : SUBSET (ModelRequests \X (Attempts \cup {0})),
             closedRequests : SUBSET ModelRequests]

\* what the variables hold
LiveTyped ==
    /\ ledger \in Seq(EventType) /\ liveOn \in BOOLEAN /\ previews \in Seq(PreviewType)
    /\ tail \in TailType /\ sent \in Seq(FrameType)
    /\ frames \in Seq(FrameType) /\ Len(frames) <= FrameBuffer

\* the start of a request is recorded once; a deleted Session has no ledger
StartsOnce ==
    /\ \A i, j \in DOMAIN ledger :
          ledger[i].kind = "start" /\ ledger[j].kind = "start" /\ ledger[i].req = ledger[j].req => i = j
    /\ ~liveOn => ledger = <<>>

\* the events that a reconcile has read and not sent are the next ones of the ledger
BatchIsNext ==
    liveOn => /\ tail.cursor <= Len(ledger)
              /\ tail.pc = "reconcile" => \A k \in DOMAIN tail.batch :
                    tail.cursor + k \in DOMAIN ledger /\ tail.batch[k] = ledger[tail.cursor + k]

\* the cursor counts the events sent since the stream began
CursorCounts ==
    /\ tail.cursor = tail.origin + EventsSent(Len(sent))
    /\ tail.pc \in {"off", "cursor"} => sent = <<>> /\ tail.batch = <<>>

\* the fences know every message and every end that was sent
FencesAreUp ==
    \A i \in DOMAIN sent :
        /\ sent[i].kind = "message" => <<sent[i].req, sent[i].attempt>> \in tail.closedMessages
        /\ sent[i].kind = "end" => sent[i].req \in tail.closedRequests

\* the start of the request is among the first n events of the ledger
StartedBy(r, n) ==
    \E i \in DOMAIN ledger : i <= n /\ ledger[i].kind = "start" /\ ledger[i].req = r

\* a preview is announced after the start of its request; the reconcile that
\* prepares it has read that start
PreviewsFollowStart ==
    /\ liveOn => \A i \in DOMAIN previews : StartedBy(previews[i][1], Len(ledger))
    /\ liveOn /\ tail.pc = "reconcile" => \A i \in DOMAIN tail.preview :
          StartedBy(tail.preview[i][1], tail.cursor + Len(tail.batch))

\* the start of the request was sent or will not be: it is before the cursor
StartIsBehind(r) ==
    \/ \E i \in DOMAIN sent : sent[i] = Ev("start", r, 0)
    \/ /\ liveOn => StartedBy(r, tail.cursor)
       /\ \A k \in DOMAIN tail.batch : tail.batch[k] # Ev("start", r, 0)

PreparedAreBehind ==
    /\ \A p \in tail.prepared : StartIsBehind(p[1])
    /\ \A i \in DOMAIN sent : sent[i].kind = "preview" => StartIsBehind(sent[i].req)

\* the preview that the tail holds
HeldPreview ==
    /\ Len(tail.preview) <= 1
    /\ tail.pc \in {"off", "cursor", "wait"} => tail.preview = <<>>
    /\ tail.pc \in {"off", "cursor"} => tail.prepared = {}
    /\ tail.pc = "forward" => Len(tail.preview) = 1 /\ tail.preview[1] \in tail.prepared
    /\ tail.pc \in {"wait", "forward"} => tail.batch = <<>>

\* the inductive invariant of a stream
LiveInv ==
    /\ LiveTyped /\ StartsOnce /\ BatchIsNext /\ CursorCounts /\ FencesAreUp
    /\ PreviewsFollowStart /\ PreparedAreBehind /\ HeldPreview
    /\ StreamHasNoGap /\ PreviewsInsideRequest

\* how many events are among the first n frames of s
Count(s, n) == Cardinality({i \in 1..n : IsEvent(s[i])})

\* Appending a frame leaves the counts as they were; the new one counts if it is
\* an event.
LEMMA CountAppended ==
    ASSUME NEW s \in Seq(FrameType), NEW f \in FrameType
    PROVE  /\ \A n \in 0..Len(s) : Count(Append(s, f), n) = Count(s, n)
           /\ Count(s, Len(s)) \in Nat
           /\ Count(Append(s, f), Len(s) + 1)
                = IF IsEvent(f) THEN Count(s, Len(s)) + 1 ELSE Count(s, Len(s))
<1> DEFINE t == Append(s, f)
<1> DEFINE C(q, n) == {i \in 1..n : IsEvent(q[i])}
<1>1. /\ t \in Seq(FrameType) /\ Len(t) = Len(s) + 1 /\ Len(s) \in Nat
      /\ \A i \in 1..Len(s) : t[i] = s[i]
      /\ t[Len(s) + 1] = f
  OBVIOUS
<1> HIDE DEF t
<1>2. \A n \in 0..Len(s) : C(t, n) = C(s, n)
  BY <1>1
<1>3. \A n \in Nat : \A q : IsFiniteSet(C(q, n)) /\ Cardinality(C(q, n)) \in Nat
  <2> TAKE n \in Nat
  <2> TAKE q
  <2>1. IsFiniteSet(1..n)
    BY FS_Interval
  <2>2. C(q, n) \in SUBSET (1..n)
    OBVIOUS
  <2> HIDE DEF C
  <2> QED BY <2>1, <2>2, FS_Subset, FS_CardinalityType
<1>4. C(t, Len(s) + 1) = IF IsEvent(f) THEN C(s, Len(s)) \cup {Len(s) + 1} ELSE C(s, Len(s))
  <2>1. 1..(Len(s) + 1) = (1..Len(s)) \cup {Len(s) + 1}
    BY <1>1
  <2>2. C(t, Len(s) + 1) = C(t, Len(s)) \cup {i \in {Len(s) + 1} : IsEvent(t[i])}
    BY <2>1
  <2> QED BY <2>2, <1>1, <1>2
<1>5. Len(s) + 1 \notin C(s, Len(s))
  BY <1>1
<1>6. Cardinality(C(t, Len(s) + 1))
        = IF IsEvent(f) THEN Cardinality(C(s, Len(s))) + 1 ELSE Cardinality(C(s, Len(s)))
  <2> HIDE DEF C
  <2> QED BY <1>1, <1>3, <1>4, <1>5, FS_AddElement
<1>7. \A q, n : Count(q, n) = Cardinality(C(q, n))
  BY DEF Count
<1> HIDE DEF C
<1>8. \A n \in 0..Len(s) : Count(t, n) = Count(s, n)
  BY <1>2, <1>7
<1> QED BY <1>1, <1>3, <1>6, <1>7, <1>8 DEF t

\* A stream that has not begun satisfies the invariant.
LEMMA LiveInitInv == LiveInit => LiveInv
<1> SUFFICES ASSUME LiveInit PROVE LiveInv
  OBVIOUS
<1> USE LiveStreamAssumption DEF LiveInit
<1>1. LiveTyped
  <2>1. NoTail \in TailType
    BY DEF NoTail, TailType, TailPcs
  <2>2. <<>> \in Seq(EventType) /\ <<>> \in Seq(PreviewType) /\ <<>> \in Seq(FrameType) /\ Len(<<>>) = 0
    OBVIOUS
  <2> QED BY <2>1, <2>2 DEF LiveTyped
<1>2. EventsSent(Len(sent)) = 0
  <2>1. {i \in 1..Len(sent) : IsEvent(sent[i])} = {}
    OBVIOUS
  <2> QED BY <2>1, FS_EmptySet DEF EventsSent
<1>3. StartsOnce /\ FencesAreUp /\ PreviewsInsideRequest
  BY DEF StartsOnce, FencesAreUp, PreviewsInsideRequest
<1>4. CursorCounts
  BY <1>2 DEF CursorCounts, NoTail
<1>5. BatchIsNext /\ PreviewsFollowStart /\ HeldPreview
  BY DEF BatchIsNext, PreviewsFollowStart, HeldPreview, NoTail
<1>6. PreparedAreBehind /\ StreamHasNoGap
  BY DEF PreparedAreBehind, StreamHasNoGap, NoTail
<1> QED BY <1>1, <1>3, <1>4, <1>5, <1>6 DEF LiveInv

\* A request that was started by the n-th event stays started by any later one.
LEMMA StartedStays ==
    ASSUME NEW r, NEW n \in Nat, NEW m \in Nat, n <= m, LiveTyped, StartedBy(r, n)
    PROVE  StartedBy(r, m)
  BY DEF StartedBy, LiveTyped

\* Commits append to the ledger: what was there keeps its place.
LEMMA LedgerGrows ==
    ASSUME LiveInv, NEW events \in Seq(EventType), ledger' = ledger \o events, liveOn,
           UNCHANGED <<liveOn, previews, tail, frames, sent>>, StartsOnce'
    PROVE  LiveInv'
<1>1. /\ ledger \in Seq(EventType) /\ Len(ledger) \in Nat /\ Len(events) \in Nat /\ LiveTyped
      /\ tail \in TailType
  BY DEF LiveInv, LiveTyped
<1>2. /\ ledger' \in Seq(EventType) /\ Len(ledger') = Len(ledger) + Len(events)
      /\ \A i \in DOMAIN ledger : i \in DOMAIN ledger' /\ ledger'[i] = ledger[i]
  BY <1>1
<1>3. \A r, n : StartedBy(r, n) => StartedBy(r, n)'
  BY <1>2 DEF StartedBy
<1>4. LiveTyped'
  BY <1>2 DEF LiveInv, LiveTyped
<1>5. BatchIsNext'
  BY <1>1, <1>2 DEF LiveInv, BatchIsNext, TailType
<1>6. CursorCounts' /\ FencesAreUp' /\ HeldPreview' /\ PreviewsInsideRequest'
  BY DEF LiveInv, CursorCounts, FencesAreUp, HeldPreview, PreviewsInsideRequest, EventsSent
<1>7. PreviewsFollowStart'
  <2>1. PICK m \in Nat : m = Len(ledger')
    BY <1>2
  <2>2. \A r : StartedBy(r, Len(ledger)) => StartedBy(r, m)
    BY <2>1, <1>1, <1>2, StartedStays
  <2>3. \A r : StartedBy(r, m)' <=> StartedBy(r, Len(ledger))'
    BY <2>1 DEF StartedBy
  <2>4. \A i \in DOMAIN previews : StartedBy(previews[i][1], Len(ledger))
    BY DEF LiveInv, PreviewsFollowStart
  <2>5. \A r : StartedBy(r, Len(ledger)) => StartedBy(r, Len(ledger))'
    BY <2>2, <2>3, <1>3
  <2>6. (\A i \in DOMAIN previews : StartedBy(previews[i][1], Len(ledger)))'
    BY <2>4, <2>5
  <2>7. (liveOn /\ tail.pc = "reconcile" => \A i \in DOMAIN tail.preview :
            StartedBy(tail.preview[i][1], tail.cursor + Len(tail.batch)))'
    BY <1>2 DEF LiveInv, PreviewsFollowStart, StartedBy
  <2> QED BY <2>6, <2>7 DEF PreviewsFollowStart
<1>8. PreparedAreBehind'
  <2>1. \A r : StartIsBehind(r) => StartIsBehind(r)'
    BY <1>3 DEF StartIsBehind
  <2> QED BY <2>1 DEF LiveInv, PreparedAreBehind
<1>9. StreamHasNoGap'
  BY <1>2 DEF LiveInv, StreamHasNoGap, EventsSent
<1> QED BY <1>4, <1>5, <1>6, <1>7, <1>8, <1>9 DEF LiveInv

\* StartModelRequest commits the only start of its request.
LEMMA StartRequestStep ==
    ASSUME LiveInv, NEW r \in ModelRequests, StartRequest(r) PROVE LiveInv'
<1> DEFINE events == <<Ev("start", r, 0)>>
<1>1. /\ liveOn /\ ~Started(r) /\ ledger' = ledger \o events
      /\ UNCHANGED <<liveOn, previews, tail, frames, sent>>
  BY DEF StartRequest, Commit
<1>2. events \in Seq(EventType) /\ Len(events) = 1 /\ events[1].kind = "start" /\ events[1].req = r
  <2>1. Ev("start", r, 0) \in EventType
    BY DEF Ev, EventType, EventKinds
  <2> QED BY <2>1 DEF Ev
<1> HIDE DEF events
<1>3. ledger \in Seq(EventType) /\ liveOn /\ liveOn' = liveOn
  BY <1>1 DEF LiveInv, LiveTyped
<1>4. /\ Len(ledger') = Len(ledger) + 1 /\ ledger' \in Seq(EventType) /\ Len(ledger) \in Nat
      /\ \A i \in DOMAIN ledger : ledger'[i] = ledger[i]
      /\ ledger'[Len(ledger) + 1] = events[1]
  <2>0. events \in Seq(EventType) /\ ledger \in Seq(EventType)
    BY <1>2, <1>3
  <2>1. Len(ledger') = Len(ledger) + 1 /\ ledger' \in Seq(EventType) /\ Len(ledger) \in Nat
    <3>1. /\ ledger \o events \in Seq(EventType) /\ Len(ledger) \in Nat
          /\ Len(ledger \o events) = Len(ledger) + Len(events)
      BY <2>0
    <3> QED BY <3>1, <1>1, <1>2
  <2>2. \A i \in DOMAIN ledger : ledger'[i] = ledger[i]
    BY <1>1, <1>2, <1>3
  <2>3. ledger'[Len(ledger) + 1] = events[1]
    BY <1>1, <1>2, <1>3, <2>1
  <2> QED BY <2>1, <2>2, <2>3
<1>5. \A i \in DOMAIN ledger' : i \in DOMAIN ledger \/ i = Len(ledger) + 1
  BY <1>3, <1>4
<1>6. \A i \in DOMAIN ledger : ~(ledger[i].kind = "start" /\ ledger[i].req = r)
  BY <1>1 DEF Started
<1>7. \A i, j \in DOMAIN ledger :
          ledger[i].kind = "start" /\ ledger[j].kind = "start" /\ ledger[i].req = ledger[j].req => i = j
  BY DEF LiveInv, StartsOnce
<1>8. StartsOnce'
  BY <1>2, <1>3, <1>4, <1>5, <1>6, <1>7 DEF StartsOnce
<1> QED BY <1>1, <1>2, <1>8, LedgerGrows

\* A round commits its message and its end, or its end alone.
LEMMA CommitRequestStep ==
    ASSUME LiveInv, NEW r \in ModelRequests, NEW a \in Attempts, NEW failed \in BOOLEAN,
           CommitRequest(r, a, failed)
    PROVE  LiveInv'
<1> DEFINE events == IF failed THEN <<Ev("end", r, 0)>> ELSE <<Ev("message", r, a), Ev("end", r, 0)>>
<1>1. /\ liveOn /\ ledger' = ledger \o events
      /\ UNCHANGED <<liveOn, previews, tail, frames, sent>>
  BY DEF CommitRequest, Commit
<1>2. events \in Seq(EventType) /\ \A k \in DOMAIN events : events[k].kind # "start"
  <2>1. Ev("end", r, 0) \in EventType /\ Ev("message", r, a) \in EventType
    BY DEF Ev, EventType, EventKinds
  <2> QED BY <2>1 DEF Ev
<1> HIDE DEF events
<1>3. ledger \in Seq(EventType) /\ liveOn /\ liveOn' = liveOn
  BY <1>1 DEF LiveInv, LiveTyped
<1>4. \A i \in DOMAIN ledger' : \/ i \in DOMAIN ledger /\ ledger'[i] = ledger[i]
                               \/ ledger'[i].kind # "start"
  <2>1. /\ Len(ledger') = Len(ledger) + Len(events) /\ Len(ledger) \in Nat /\ Len(events) \in Nat
        /\ \A i \in 1..Len(ledger) : ledger'[i] = ledger[i]
        /\ \A k \in 1..Len(events) : ledger'[Len(ledger) + k] = events[k]
        /\ DOMAIN ledger' = 1..(Len(ledger) + Len(events)) /\ DOMAIN ledger = 1..Len(ledger)
        /\ DOMAIN events = 1..Len(events)
    BY <1>1, <1>2, <1>3
  <2>2. \A i \in 1..(Len(ledger) + Len(events)) :
            i \in 1..Len(ledger) \/ (i - Len(ledger) \in 1..Len(events)
                  /\ i = Len(ledger) + (i - Len(ledger)))
    BY <2>1
  <2>3. ASSUME NEW i \in DOMAIN ledger', i \notin DOMAIN ledger PROVE ledger'[i].kind # "start"
    <3>1. PICK k \in DOMAIN events : i = Len(ledger) + k
      BY <2>1, <2>2, <2>3
    <3> QED BY <3>1, <2>1, <1>2
  <2> QED BY <2>1, <2>3
<1>5. StartsOnce'
  BY <1>3, <1>4 DEF LiveInv, StartsOnce
<1> QED BY <1>1, <1>2, <1>5, LedgerGrows

\* A preview is published after the start of its request.
LEMMA PublishStep ==
    ASSUME LiveInv, NEW r \in ModelRequests, NEW a \in Attempts, PublishPreview(r, a)
    PROVE  LiveInv'
<1>1. /\ UNCHANGED <<ledger, liveOn, tail, frames, sent>> /\ Started(r)
      /\ previews' = previews \/ previews' = Append(previews, <<r, a>>) \/ previews' = <<>>
  BY DEF PublishPreview
<1>2. previews \in Seq(PreviewType) /\ <<r, a>> \in PreviewType /\ ledger \in Seq(EventType)
  BY DEF LiveInv, LiveTyped, PreviewType
<1>3. /\ previews' \in Seq(PreviewType)
      /\ \A i \in DOMAIN previews' :
            previews'[i] = <<r, a>> \/ (i \in DOMAIN previews /\ previews'[i] = previews[i])
  <2>1. CASE previews' = previews
    BY <2>1, <1>2
  <2>2. CASE previews' = Append(previews, <<r, a>>)
    <3> DEFINE p == <<r, a>>
    <3>1. p \in PreviewType /\ previews' = Append(previews, p)
      BY <2>2, <1>2
    <3> HIDE DEF p
    <3>2. /\ previews' \in Seq(PreviewType)
          /\ \A i \in DOMAIN previews' : previews'[i] = p \/ (i \in DOMAIN previews
                /\ previews'[i] = previews[i])
      BY <3>1, <1>2
    <3> QED BY <3>2 DEF p
  <2>3. CASE previews' = <<>>
    BY <2>3
  <2> QED BY <2>1, <2>2, <2>3, <1>1
<1>4. LiveTyped'
  BY <1>1, <1>3 DEF LiveInv, LiveTyped
<1>5. StartedBy(r, Len(ledger))
  BY <1>1, <1>2 DEF Started, StartedBy
<1>6. liveOn => \A i \in DOMAIN previews : StartedBy(previews[i][1], Len(ledger))
  BY DEF LiveInv, PreviewsFollowStart
<1>8. liveOn => \A i \in DOMAIN previews' : StartedBy(previews'[i][1], Len(ledger))
  BY <1>3, <1>5, <1>6
<1>9. \A x, n : StartedBy(x, n)' <=> StartedBy(x, n)
  BY <1>1 DEF StartedBy
<1>10. PreviewsFollowStart'
  BY <1>1, <1>8, <1>9 DEF LiveInv, PreviewsFollowStart, StartedBy
<1> QED BY <1>1, <1>4, <1>10
   DEF LiveInv, StartsOnce, BatchIsNext, CursorCounts, EventsSent, FencesAreUp, PreparedAreBehind,
       StartIsBehind, StartedBy, HeldPreview, StreamHasNoGap, PreviewsInsideRequest

\* The ledger goes with the Session; what was read is sent all the same.
LEMMA DeleteStep == ASSUME LiveInv, DeleteLiveSession PROVE LiveInv'
<1>1. liveOn' = FALSE /\ ledger' = <<>> /\ UNCHANGED <<previews, tail, frames, sent>>
  BY DEF DeleteLiveSession
<1>2. LiveTyped'
  <2>1. ledger' \in Seq(EventType)
    BY <1>1
  <2> QED BY <2>1, <1>1 DEF LiveInv, LiveTyped
<1>3. StartsOnce' /\ BatchIsNext' /\ PreviewsFollowStart' /\ StreamHasNoGap'
  BY <1>1 DEF StartsOnce, BatchIsNext, PreviewsFollowStart, StreamHasNoGap
<1>4. PreparedAreBehind'
  BY <1>1 DEF LiveInv, PreparedAreBehind, StartIsBehind
<1> QED BY <1>1, <1>2, <1>3, <1>4
   DEF LiveInv, CursorCounts, EventsSent, FencesAreUp, HeldPreview, PreviewsInsideRequest

\* The tail leaves its loop: it neither reads nor sends any more.
LEMMA TailCloses ==
    ASSUME LiveInv, tail' = [tail EXCEPT !.pc = "closed"], tail.pc \notin {"off", "cursor"},
           UNCHANGED <<ledger, liveOn, previews, sent>>,
           frames' \in Seq(FrameType), Len(frames') <= FrameBuffer
    PROVE  LiveInv'
<1>1. tail \in TailType
  BY DEF LiveInv, LiveTyped
<1>2. /\ tail' \in TailType /\ tail'.pc = "closed" /\ tail'.cursor = tail.cursor
      /\ tail'.origin = tail.origin /\ tail'.batch = tail.batch /\ tail'.preview = tail.preview
      /\ tail'.prepared = tail.prepared /\ tail'.closedMessages = tail.closedMessages
      /\ tail'.closedRequests = tail.closedRequests
  BY <1>1 DEF TailType, TailPcs
<1>3. LiveTyped'
  BY <1>2 DEF LiveInv, LiveTyped
<1>4. BatchIsNext' /\ PreviewsFollowStart'
  BY <1>2 DEF LiveInv, BatchIsNext, PreviewsFollowStart, StartedBy
<1>5. PreparedAreBehind'
  BY <1>2 DEF LiveInv, PreparedAreBehind, StartIsBehind, StartedBy
<1> QED BY <1>2, <1>3, <1>4, <1>5
   DEF LiveInv, StartsOnce, CursorCounts, EventsSent, FencesAreUp, HeldPreview, StreamHasNoGap,
       PreviewsInsideRequest

\* The stream begins after the last event of the ledger.
LEMMA CursorStep == ASSUME LiveInv, LatestEventSequence PROVE LiveInv'
<1>1. /\ tail.pc = "off" /\ liveOn /\ UNCHANGED <<ledger, liveOn, previews, frames, sent>>
      /\ tail' = [tail EXCEPT !.pc = "cursor", !.cursor = Len(ledger), !.origin = Len(ledger)]
  BY DEF LatestEventSequence
<1>2. /\ tail \in TailType /\ Len(ledger) \in Nat /\ sent = <<>> /\ tail.batch = <<>>
      /\ tail.preview = <<>> /\ tail.prepared = {}
  BY <1>1 DEF LiveInv, LiveTyped, CursorCounts, HeldPreview
<1>3. /\ tail' \in TailType /\ tail'.pc = "cursor" /\ tail'.cursor = Len(ledger)
      /\ tail'.origin = Len(ledger) /\ tail'.batch = <<>> /\ tail'.preview = <<>> /\ tail'.prepared = {}
  BY <1>1, <1>2 DEF TailType, TailPcs
<1>4. LiveTyped' /\ StartsOnce'
  BY <1>1, <1>3 DEF LiveInv, LiveTyped, StartsOnce
<1>5. EventsSent(Len(sent))' = 0
  <2>1. {i \in 1..Len(sent') : IsEvent(sent'[i])} = {}
    BY <1>1, <1>2
  <2> QED BY <2>1, FS_EmptySet DEF EventsSent
<1>6. BatchIsNext' /\ CursorCounts' /\ HeldPreview'
  BY <1>1, <1>2, <1>3, <1>5 DEF BatchIsNext, CursorCounts, HeldPreview
<1>7. FencesAreUp' /\ PreparedAreBehind' /\ StreamHasNoGap' /\ PreviewsInsideRequest'
  BY <1>1, <1>2, <1>3 DEF FencesAreUp, PreparedAreBehind, StreamHasNoGap, PreviewsInsideRequest
<1>8. PreviewsFollowStart'
  BY <1>1, <1>3 DEF LiveInv, PreviewsFollowStart, StartedBy
<1> QED BY <1>4, <1>6, <1>7, <1>8 DEF LiveInv

\* The subscription reads nothing.
LEMMA SubscribeStep == ASSUME LiveInv, Subscribe PROVE LiveInv'
<1>1. /\ tail.pc = "cursor" /\ UNCHANGED <<ledger, liveOn, previews, frames, sent>>
      /\ tail' = [tail EXCEPT !.pc = "wait"]
  BY DEF Subscribe
<1>2. tail \in TailType /\ tail.batch = <<>> /\ tail.preview = <<>>
  BY <1>1 DEF LiveInv, LiveTyped, CursorCounts, HeldPreview
<1>3. /\ tail' \in TailType /\ tail'.pc = "wait" /\ tail'.cursor = tail.cursor
      /\ tail'.origin = tail.origin /\ tail'.batch = tail.batch /\ tail'.preview = tail.preview
      /\ tail'.prepared = tail.prepared /\ tail'.closedMessages = tail.closedMessages
      /\ tail'.closedRequests = tail.closedRequests
  BY <1>1, <1>2 DEF TailType, TailPcs
<1>4. LiveTyped'
  BY <1>1, <1>3 DEF LiveInv, LiveTyped
<1>5. BatchIsNext' /\ PreviewsFollowStart' /\ HeldPreview'
  BY <1>1, <1>2, <1>3 DEF LiveInv, BatchIsNext, PreviewsFollowStart, StartedBy, HeldPreview
<1>6. PreparedAreBehind'
  BY <1>1, <1>3 DEF LiveInv, PreparedAreBehind, StartIsBehind, StartedBy
<1> QED BY <1>1, <1>3, <1>4, <1>5, <1>6
   DEF LiveInv, StartsOnce, CursorCounts, EventsSent, FencesAreUp, StreamHasNoGap, PreviewsInsideRequest

\* The part of a sequence after its first c elements.
LEMMA SuffixRead ==
    ASSUME NEW S, NEW s \in Seq(S), NEW c \in Nat
    PROVE  LET b == SubSeq(s, c + 1, Len(s))
           IN  /\ b \in Seq(S)
               /\ \A k \in DOMAIN b : c + k \in DOMAIN s /\ b[k] = s[c + k]
               /\ c <= Len(s) => c + Len(b) = Len(s)
<1> DEFINE b == SubSeq(s, c + 1, Len(s))
<1>1. CASE c <= Len(s)
  <2>1. b \in Seq(S)
    BY <1>1
  <2>2. Len(b) = Len(s) - c
    BY <1>1
  <2>3. \A k \in 1..(Len(s) - c) : b[k] = s[c + k]
    BY <1>1
  <2> HIDE DEF b
  <2>4. \A k \in DOMAIN b : c + k \in DOMAIN s /\ b[k] = s[c + k]
    BY <1>1, <2>1, <2>2, <2>3
  <2>5. c + Len(b) = Len(s)
    BY <1>1, <2>2
  <2> QED BY <2>1, <2>4, <2>5 DEF b
<1>2. CASE ~(c <= Len(s))
  <2>1. b = <<>>
    <3>1. Len(s) \in Int /\ c + 1 \in Int /\ Len(s) < c + 1
      BY <1>2
    <3> QED BY <3>1, SubSeqEmpty
  <2> QED BY <1>2, <2>1
<1> QED BY <1>1, <1>2

\* What EventsAfter reads are the events behind the cursor, up to the last one.
LEMMA BatchRead ==
    ASSUME LiveTyped, liveOn => tail.cursor <= Len(ledger)
    PROVE  /\ EventsAfter(tail.cursor) \in Seq(EventType)
           /\ \A k \in DOMAIN EventsAfter(tail.cursor) :
                 /\ tail.cursor + k \in DOMAIN ledger
                 /\ EventsAfter(tail.cursor)[k] = ledger[tail.cursor + k]
           /\ liveOn => tail.cursor + Len(EventsAfter(tail.cursor)) = Len(ledger)
<1>1. ledger \in Seq(EventType) /\ tail.cursor \in Nat
  BY DEF LiveTyped, TailType
<1>2. PICK s \in Seq(EventType), c \in Nat : s = ledger /\ c = tail.cursor
  BY <1>1
<1>3. LET b == SubSeq(s, c + 1, Len(s))
      IN  /\ b \in Seq(EventType)
          /\ \A k \in DOMAIN b : c + k \in DOMAIN s /\ b[k] = s[c + k]
          /\ c <= Len(s) => c + Len(b) = Len(s)
  BY SuffixRead
<1>4. EventsAfter(tail.cursor) = SubSeq(s, c + 1, Len(s))
  BY <1>2 DEF EventsAfter
<1> QED BY <1>2, <1>3, <1>4

\* A reconcile reads the events behind the cursor; the preview that waits for it
\* was announced after the start of its request.
LEMMA ReconcileBegins ==
    ASSUME LiveInv, tail.pc = "wait", UNCHANGED <<ledger, liveOn, frames, sent>>,
           NEW pv \in Seq(PreviewType), Len(pv) <= 1,
           tail' = [tail EXCEPT !.pc = "reconcile", !.preview = pv, !.batch = EventsAfter(tail.cursor)],
           previews' \in Seq(PreviewType),
           \A i \in DOMAIN previews' : \E j \in DOMAIN previews : previews'[i] = previews[j],
           \A i \in DOMAIN pv : \E j \in DOMAIN previews : pv[i] = previews[j]
    PROVE  LiveInv'
<1>1. tail \in TailType /\ tail.cursor \in Nat /\ LiveTyped /\ ledger \in Seq(EventType)
      /\ Len(ledger) \in Nat
  BY DEF LiveInv, LiveTyped, TailType
<1>2. PICK b : b = EventsAfter(tail.cursor)
  OBVIOUS
<1>3. /\ b \in Seq(EventType)
      /\ \A k \in DOMAIN b : tail.cursor + k \in DOMAIN ledger /\ b[k] = ledger[tail.cursor + k]
      /\ liveOn => tail.cursor + Len(b) = Len(ledger)
  BY <1>1, <1>2, BatchRead DEF LiveInv, BatchIsNext, StartsOnce
<1>4. /\ tail' \in TailType /\ tail'.pc = "reconcile" /\ tail'.cursor = tail.cursor
      /\ tail'.origin = tail.origin /\ tail'.batch = b /\ tail'.preview = pv
      /\ tail'.prepared = tail.prepared /\ tail'.closedMessages = tail.closedMessages
      /\ tail'.closedRequests = tail.closedRequests
  <2>1. tail' = [tail EXCEPT !.pc = "reconcile", !.preview = pv, !.batch = b]
    BY <1>2
  <2> QED BY <2>1, <1>1, <1>3 DEF TailType, TailPcs
<1>5. LiveTyped'
  BY <1>4 DEF LiveInv, LiveTyped
<1>6. BatchIsNext'
  BY <1>3, <1>4 DEF LiveInv, BatchIsNext
<1>7. \A x, n : StartedBy(x, n)' <=> StartedBy(x, n)
  BY DEF StartedBy
<1>8. PreviewsFollowStart'
  <2>1. liveOn => \A i \in DOMAIN previews : StartedBy(previews[i][1], Len(ledger))
    BY DEF LiveInv, PreviewsFollowStart
  <2>2. liveOn => /\ \A i \in DOMAIN previews' : StartedBy(previews'[i][1], Len(ledger))
                  /\ \A i \in DOMAIN pv : StartedBy(pv[i][1], tail.cursor + Len(b))
    BY <2>1, <1>3
  <2>3. liveOn' => \A i \in DOMAIN previews' : StartedBy(previews[i][1], Len(ledger))'
    BY <2>2 DEF StartedBy
  <2>4. liveOn' => \A i \in DOMAIN tail'.preview :
            StartedBy(tail.preview[i][1], tail.cursor + Len(tail.batch))'
    BY <2>2, <1>4 DEF StartedBy
  <2> QED BY <2>3, <2>4 DEF PreviewsFollowStart
<1>9. ASSUME NEW r, StartIsBehind(r) PROVE StartIsBehind(r)'
  <2>1. CASE \E i \in DOMAIN sent : sent[i] = Ev("start", r, 0)
    BY <2>1 DEF StartIsBehind
  <2>2. CASE liveOn => StartedBy(r, tail.cursor)
    <3>1. ASSUME NEW k \in DOMAIN b PROVE b[k] # Ev("start", r, 0)
      <4>1. CASE liveOn
        <5>1. PICK i \in DOMAIN ledger : i <= tail.cursor /\ ledger[i].kind = "start"
              /\ ledger[i].req = r
          BY <4>1, <2>2 DEF StartedBy
        <5>2. tail.cursor + k \in DOMAIN ledger /\ b[k] = ledger[tail.cursor + k] /\ i # tail.cursor + k
          BY <5>1, <3>1, <1>1, <1>3
        <5> QED BY <5>1, <5>2 DEF LiveInv, StartsOnce, Ev
      <4>2. CASE ~liveOn
        <5>1. DOMAIN ledger = {}
          BY <4>2 DEF LiveInv, StartsOnce
        <5> QED BY <5>1, <3>1, <1>3
      <4> QED BY <4>1, <4>2
    <3> QED BY <3>1, <2>2, <1>4 DEF StartIsBehind, StartedBy
  <2> QED BY <1>9, <2>1, <2>2 DEF StartIsBehind
<1>10. PreparedAreBehind'
  BY <1>4, <1>9 DEF LiveInv, PreparedAreBehind
<1> QED BY <1>4, <1>5, <1>6, <1>8, <1>10
   DEF LiveInv, StartsOnce, CursorCounts, EventsSent, FencesAreUp, HeldPreview, StreamHasNoGap,
       PreviewsInsideRequest

\* A wakeup, or the ticker, begins a reconcile.
LEMMA ReconcileStep == ASSUME LiveInv, StartReconcile PROVE LiveInv'
<1>1. /\ tail.pc = "wait" /\ UNCHANGED <<ledger, liveOn, previews, frames, sent>>
      /\ tail' = [tail EXCEPT !.pc = "reconcile", !.batch = EventsAfter(tail.cursor)]
  BY DEF StartReconcile
<1>2. tail \in TailType /\ tail.preview = <<>> /\ previews \in Seq(PreviewType)
  BY <1>1 DEF LiveInv, LiveTyped, HeldPreview
<1>3. PICK pv \in Seq(PreviewType) : pv = <<>>
  <2>1. <<>> \in Seq(PreviewType)
    OBVIOUS
  <2> QED BY <2>1
<1>4. PICK b : b = EventsAfter(tail.cursor)
  OBVIOUS
<1>5. tail' = [tail EXCEPT !.pc = "reconcile", !.preview = pv, !.batch = b]
  BY <1>1, <1>2, <1>3, <1>4 DEF TailType
<1>6. /\ Len(pv) <= 1
      /\ \A i \in DOMAIN previews' : \E j \in DOMAIN previews : previews'[i] = previews[j]
      /\ \A i \in DOMAIN pv : \E j \in DOMAIN previews : pv[i] = previews[j]
  BY <1>1, <1>3
<1> QED BY <1>1, <1>2, <1>4, <1>5, <1>6, ReconcileBegins

\* The first preview of an event waits for a reconcile, a later one is forwarded.
LEMMA ReceiveStep == ASSUME LiveInv, ReceivePreview PROVE LiveInv'
<1>1. /\ tail.pc = "wait" /\ previews # <<>> /\ previews' = Tail(previews)
      /\ UNCHANGED <<ledger, liveOn, frames, sent>>
  BY DEF ReceivePreview
<1>2. tail \in TailType /\ previews \in Seq(PreviewType)
  BY DEF LiveInv, LiveTyped
<1>3. PICK p : p = Head(previews)
  OBVIOUS
<1>4. /\ p \in PreviewType /\ previews' \in Seq(PreviewType) /\ 1 \in DOMAIN previews /\ p = previews[1]
      /\ \A i \in DOMAIN previews' : \E j \in DOMAIN previews : previews'[i] = previews[j]
  <2>1. /\ Len(Tail(previews)) = Len(previews) - 1 /\ Len(previews) \in Nat \ {0}
        /\ \A i \in 1..(Len(previews) - 1) : Tail(previews)[i] = previews[i + 1]
        /\ Tail(previews) \in Seq(PreviewType) /\ p = previews[1] /\ p \in PreviewType
    BY <1>1, <1>2, <1>3
  <2>2. ASSUME NEW i \in DOMAIN previews' PROVE \E j \in DOMAIN previews : previews'[i] = previews[j]
    <3>1. i \in 1..(Len(previews) - 1) /\ i + 1 \in DOMAIN previews
      BY <1>1, <1>2, <2>1, <2>2
    <3> QED BY <3>1, <1>1, <2>1
  <2> QED BY <1>1, <1>2, <2>1, <2>2
<1>5. PICK pv \in Seq(PreviewType) : pv = <<p>>
  <2>1. <<p>> \in Seq(PreviewType)
    BY <1>4
  <2> QED BY <2>1
<1>6. Len(pv) = 1 /\ pv[1] = p /\ DOMAIN pv = {1}
  BY <1>5
<1>7. CASE NeedsReconcile(p)
  <2>1. PICK b : b = EventsAfter(tail.cursor)
    OBVIOUS
  <2>2. tail' = [tail EXCEPT !.pc = "reconcile", !.preview = pv, !.batch = b]
    BY <1>3, <1>5, <1>7, <2>1 DEF ReceivePreview
  <2>3. \A i \in DOMAIN pv : \E j \in DOMAIN previews : pv[i] = previews[j]
    BY <1>4, <1>6
  <2>4. Len(pv) <= 1
    BY <1>6
  <2> QED BY <1>1, <1>4, <2>1, <2>2, <2>3, <2>4, ReconcileBegins
<1>8. CASE ~NeedsReconcile(p)
  <2>1. tail' = [tail EXCEPT !.pc = "forward", !.preview = pv] /\ p \in tail.prepared
    BY <1>3, <1>5, <1>8 DEF ReceivePreview, NeedsReconcile
  <2>2. /\ tail' \in TailType /\ tail'.pc = "forward" /\ tail'.cursor = tail.cursor
        /\ tail'.origin = tail.origin /\ tail'.batch = tail.batch /\ tail'.preview = pv
        /\ tail'.prepared = tail.prepared /\ tail'.closedMessages = tail.closedMessages
        /\ tail'.closedRequests = tail.closedRequests
    BY <1>2, <2>1 DEF TailType, TailPcs
  <2>3. LiveTyped'
    BY <1>1, <1>4, <2>2 DEF LiveInv, LiveTyped
  <2>4. BatchIsNext' /\ HeldPreview'
    <3>1. BatchIsNext'
      BY <1>1, <2>2 DEF LiveInv, BatchIsNext
    <3>2. Len(tail'.preview) = 1 /\ tail'.preview[1] \in tail'.prepared
      BY <1>6, <2>1, <2>2
    <3>3. tail'.batch = <<>>
      BY <1>1, <2>2 DEF LiveInv, HeldPreview
    <3> QED BY <3>1, <3>2, <3>3, <2>2 DEF HeldPreview
  <2>5. PreviewsFollowStart'
    <3>1. liveOn => \A i \in DOMAIN previews : StartedBy(previews[i][1], Len(ledger))
      BY DEF LiveInv, PreviewsFollowStart
    <3>2. liveOn' => \A i \in DOMAIN previews' : StartedBy(previews[i][1], Len(ledger))'
      BY <3>1, <1>1, <1>4 DEF StartedBy
    <3> QED BY <3>2, <2>2 DEF PreviewsFollowStart
  <2>6. PreparedAreBehind'
    BY <1>1, <2>2 DEF LiveInv, PreparedAreBehind, StartIsBehind, StartedBy
  <2> QED BY <1>1, <2>2, <2>3, <2>4, <2>5, <2>6
     DEF LiveInv, StartsOnce, CursorCounts, EventsSent, FencesAreUp, StreamHasNoGap,
         PreviewsInsideRequest
<1> QED BY <1>7, <1>8

\* What appending a frame leaves in the history, and how it counts.
LEMMA FrameSent ==
    ASSUME LiveTyped, NEW f \in FrameType, sent' = Append(sent, f)
    PROVE  /\ sent' \in Seq(FrameType) /\ Len(sent) \in Nat /\ Len(sent') = Len(sent) + 1
           /\ \A i \in DOMAIN sent : i \in DOMAIN sent' /\ sent'[i] = sent[i]
           /\ sent'[Len(sent) + 1] = f
           /\ \A i \in DOMAIN sent' : i \in DOMAIN sent \/ i = Len(sent) + 1
           /\ DOMAIN sent = 1..Len(sent) /\ DOMAIN sent' = 1..(Len(sent) + 1)
           /\ \A i \in 0..Len(sent) : EventsSent(i)' = EventsSent(i)
           /\ EventsSent(Len(sent)) \in Nat
           /\ EventsSent(Len(sent))'
                = IF IsEvent(f) THEN EventsSent(Len(sent)) + 1 ELSE EventsSent(Len(sent))
<1>1. sent \in Seq(FrameType)
  BY DEF LiveTyped
<1>2. PICK s \in Seq(FrameType) : s = sent
  BY <1>1
<1>3. sent' = Append(s, f)
  BY <1>2
<1>4. /\ \A n \in 0..Len(s) : Count(Append(s, f), n) = Count(s, n)
      /\ Count(s, Len(s)) \in Nat
      /\ Count(Append(s, f), Len(s) + 1)
           = IF IsEvent(f) THEN Count(s, Len(s)) + 1 ELSE Count(s, Len(s))
  BY CountAppended
<1>5. \A n : EventsSent(n) = Count(s, n) /\ EventsSent(n)' = Count(Append(s, f), n)
  BY <1>2, <1>3 DEF EventsSent, Count
<1>6. /\ sent' \in Seq(FrameType) /\ Len(sent) \in Nat /\ Len(sent') = Len(sent) + 1
      /\ \A i \in DOMAIN sent : i \in DOMAIN sent' /\ sent'[i] = sent[i]
      /\ sent'[Len(sent) + 1] = f
      /\ DOMAIN sent = 1..Len(sent) /\ DOMAIN sent' = 1..(Len(sent) + 1)
  BY <1>1
<1>7. EventsSent(Len(sent))' = Count(Append(s, f), Len(s) + 1)
  BY <1>2, <1>3, <1>6 DEF EventsSent, Count
<1> QED BY <1>2, <1>4, <1>5, <1>6, <1>7

\* A frame that finds room joins the channel.
LEMMA FrameQueued ==
    ASSUME LiveTyped, NEW f \in FrameType, Len(frames) < FrameBuffer, frames' = Append(frames, f)
    PROVE  frames' \in Seq(FrameType) /\ Len(frames') <= FrameBuffer
<1>1. frames \in Seq(FrameType) /\ FrameBuffer \in Nat
  BY LiveStreamAssumption DEF LiveTyped
<1> QED BY <1>1

\* One step of the cursor.
LEMMA NextPlace ==
    ASSUME NEW c \in Nat, NEW o \in Nat, NEW n \in Nat, NEW k \in Nat
    PROVE  c + 1 + k = c + (k + 1) /\ (c = o + n => c + 1 = o + (n + 1))
  OBVIOUS

\* The next event of the batch is sent: the cursor and the fences move with it.
LEMMA EventSent ==
    ASSUME LiveInv, tail.pc = "reconcile", tail.batch # <<>>,
           Len(frames) < FrameBuffer, frames' = Append(frames, Head(tail.batch)),
           sent' = Append(sent, Head(tail.batch)), tail' = Fenced(tail, Head(tail.batch)),
           UNCHANGED <<ledger, liveOn, previews>>
    PROVE  LiveInv'
<1>1. /\ tail \in TailType /\ LiveTyped /\ tail.cursor \in Nat /\ tail.origin \in Nat
      /\ tail.batch \in Seq(EventType) /\ ledger \in Seq(EventType)
  BY DEF LiveInv, LiveTyped, TailType
<1>0. tail.cursor \in Nat /\ tail.origin \in Nat /\ tail.cursor + 1 \in Nat
  BY <1>1
<1>2. PICK e, rest : e = Head(tail.batch) /\ rest = Tail(tail.batch)
  OBVIOUS
<1>3. /\ e \in EventType /\ e = tail.batch[1] /\ rest \in Seq(EventType) /\ 1 \in DOMAIN tail.batch
      /\ Len(tail.batch) = Len(rest) + 1 /\ Len(rest) \in Nat
      /\ \A k \in DOMAIN rest : k \in Nat /\ k + 1 \in DOMAIN tail.batch /\ rest[k] = tail.batch[k + 1]
  BY <1>1, <1>2
<1>4. e \in FrameType /\ IsEvent(e) /\ e.kind \in EventKinds /\ e.kind # "preview"
      /\ e.req \in ModelRequests /\ e.attempt \in Attempts \cup {0}
  BY <1>3 DEF EventType, FrameType, EventKinds, IsEvent
<1>5. /\ tail' \in TailType /\ tail'.pc = "reconcile" /\ tail'.cursor = tail.cursor + 1
      /\ tail'.origin = tail.origin /\ tail'.batch = rest /\ tail'.preview = tail.preview
      /\ tail'.prepared = tail.prepared
      /\ tail'.closedMessages = IF e.kind = "message" THEN tail.closedMessages
          \cup {<<e.req, e.attempt>>}
                                ELSE tail.closedMessages
      /\ tail'.closedRequests = IF e.kind = "end" THEN tail.closedRequests \cup {e.req}
                                ELSE tail.closedRequests
  <2> DEFINE cm == IF e.kind = "message" THEN tail.closedMessages \cup {<<e.req, e.attempt>>}
                   ELSE tail.closedMessages
  <2> DEFINE cr == IF e.kind = "end" THEN tail.closedRequests \cup {e.req} ELSE tail.closedRequests
  <2>1. tail' = [tail EXCEPT !.cursor = tail.cursor + 1, !.batch = rest, !.closedMessages = cm,
                             !.closedRequests = cr]
    BY <1>2 DEF Fenced
  <2>2. cm \in SUBSET (ModelRequests \X (Attempts \cup {0})) /\ cr \in SUBSET ModelRequests
    BY <1>1, <1>4 DEF TailType
  <2> DEFINE next == tail.cursor + 1
  <2>4. next \in Nat
    BY <1>0
  <2> HIDE DEF cm, cr, next
  <2>5. tail' = [tail EXCEPT !.cursor = next, !.batch = rest, !.closedMessages = cm,
          !.closedRequests = cr]
    BY <2>1 DEF next
  <2>3. /\ tail' \in TailType /\ tail'.pc = "reconcile" /\ tail'.cursor = next
        /\ tail'.origin = tail.origin /\ tail'.batch = rest /\ tail'.preview = tail.preview
        /\ tail'.prepared = tail.prepared /\ tail'.closedMessages = cm /\ tail'.closedRequests = cr
    BY <2>5, <2>4, <2>2, <1>1, <1>3 DEF TailType
  <2> QED BY <2>3 DEF cm, cr, next
<1>6. /\ sent' \in Seq(FrameType) /\ Len(sent) \in Nat /\ Len(sent') = Len(sent) + 1
      /\ \A i \in DOMAIN sent : i \in DOMAIN sent' /\ sent'[i] = sent[i]
      /\ sent'[Len(sent) + 1] = e
      /\ \A i \in DOMAIN sent' : i \in DOMAIN sent \/ i = Len(sent) + 1
      /\ DOMAIN sent = 1..Len(sent) /\ DOMAIN sent' = 1..(Len(sent) + 1)
      /\ \A i \in 0..Len(sent) : EventsSent(i)' = EventsSent(i)
      /\ EventsSent(Len(sent)) \in Nat
      /\ EventsSent(Len(sent))' = EventsSent(Len(sent)) + 1
  BY <1>1, <1>2, <1>4, FrameSent
<1>7. LiveTyped'
  <2>1. frames' \in Seq(FrameType) /\ Len(frames') <= FrameBuffer
    BY <1>1, <1>2, <1>4, FrameQueued
  <2> QED BY <2>1, <1>5, <1>6 DEF LiveInv, LiveTyped
<1>8. BatchIsNext'
  <2>1. liveOn => /\ tail.cursor + 1 \in DOMAIN ledger
                  /\ \A k \in DOMAIN rest : /\ tail.cursor + 1 + k \in DOMAIN ledger
                                            /\ rest[k] = ledger[tail.cursor + 1 + k]
    <3>1. liveOn => \A k \in DOMAIN tail.batch :
              tail.cursor + k \in DOMAIN ledger /\ tail.batch[k] = ledger[tail.cursor + k]
      BY DEF LiveInv, BatchIsNext
    <3>2. \A k \in Nat : tail.cursor + 1 + k = tail.cursor + (k + 1)
      BY <1>0, NextPlace
    <3> QED BY <3>1, <3>2, <1>3
  <2>2. liveOn => tail.cursor + 1 <= Len(ledger)
    BY <2>1, <1>1
  <2> QED BY <2>1, <2>2, <1>5 DEF BatchIsNext
<1>9. CursorCounts'
  <2>1. tail.cursor = tail.origin + EventsSent(Len(sent))
    BY DEF LiveInv, CursorCounts
  <2>2. tail'.cursor = tail'.origin + EventsSent(Len(sent))'
    <3>1. EventsSent(Len(sent)) \in Nat
      BY <1>6
    <3>2. tail.cursor + 1 = tail.origin + (EventsSent(Len(sent)) + 1)
      BY <3>1, <2>1, <1>0, NextPlace
    <3> QED BY <3>2, <1>5, <1>6
  <2> QED BY <2>2, <1>5 DEF CursorCounts
<1>10. FencesAreUp'
  BY <1>5, <1>6 DEF LiveInv, FencesAreUp
<1>11. PreviewsFollowStart'
  <2>1. tail'.cursor + Len(tail'.batch) = tail.cursor + Len(tail.batch)
    <3>1. Len(rest) \in Nat /\ Len(tail.batch) = Len(rest) + 1
      BY <1>3
    <3>2. tail.cursor + 1 + Len(rest) = tail.cursor + (Len(rest) + 1)
      BY <3>1, <1>0, NextPlace
    <3> QED BY <3>1, <3>2, <1>5
  <2> QED BY <2>1, <1>5 DEF LiveInv, PreviewsFollowStart, StartedBy
<1>12. ASSUME NEW r, StartIsBehind(r) PROVE StartIsBehind(r)'
  <2>1. CASE \E i \in DOMAIN sent : sent[i] = Ev("start", r, 0)
    BY <2>1, <1>6 DEF StartIsBehind
  <2>2. CASE /\ liveOn => StartedBy(r, tail.cursor)
             /\ \A k \in DOMAIN tail.batch : tail.batch[k] # Ev("start", r, 0)
    <3>1. StartedBy(r, tail.cursor) => StartedBy(r, tail.cursor + 1)
      BY <1>1, StartedStays
    <3>2. (liveOn => StartedBy(r, tail.cursor))'
      BY <3>1, <2>2, <1>5 DEF StartedBy
    <3> QED BY <3>2, <2>2, <1>3, <1>5 DEF StartIsBehind
  <2> QED BY <1>12, <2>1, <2>2 DEF StartIsBehind
<1>13. PreparedAreBehind'
  <2>1. \A p \in tail'.prepared : StartIsBehind(p[1])'
    BY <1>5, <1>12 DEF LiveInv, PreparedAreBehind
  <2>2. \A i \in DOMAIN sent' : sent'[i].kind = "preview" => StartIsBehind(sent[i].req)'
    BY <1>4, <1>6, <1>12 DEF LiveInv, PreparedAreBehind
  <2> QED BY <2>1, <2>2 DEF PreparedAreBehind
<1>14. StreamHasNoGap'
  <2>1. ASSUME liveOn, NEW i \in DOMAIN sent', IsEvent(sent'[i])
        PROVE  /\ tail'.origin + EventsSent(i)' \in DOMAIN ledger
               /\ sent'[i] = ledger[tail'.origin + EventsSent(i)']
    <3>1. CASE i \in DOMAIN sent
      <4>1. EventsSent(i)' = EventsSent(i) /\ sent'[i] = sent[i]
        BY <3>1, <1>6
      <4> QED BY <4>1, <3>1, <2>1, <1>5 DEF LiveInv, StreamHasNoGap
    <3>2. CASE i = Len(sent) + 1
      <4>1. EventsSent(i)' = EventsSent(Len(sent))'
        BY <3>2, <1>6 DEF EventsSent
      <4>2. tail'.origin + EventsSent(i)' = tail.cursor + 1
        BY <4>1, <1>5, <1>9 DEF CursorCounts
      <4>3. tail.cursor + 1 \in DOMAIN ledger /\ e = ledger[tail.cursor + 1]
        BY <2>1, <1>3 DEF LiveInv, BatchIsNext
      <4> QED BY <4>2, <4>3, <3>2, <1>6
    <3> QED BY <3>1, <3>2, <1>6
  <2> QED BY <2>1 DEF StreamHasNoGap
<1>15. PreviewsInsideRequest'
  <2>1. ASSUME NEW i \in DOMAIN sent', sent'[i].kind = "preview"
        PROVE  /\ \A j \in 1..(i - 1) :
                    /\ sent'[j] # Ev("message", sent'[i].req, sent'[i].attempt)
                    /\ sent'[j] # Ev("end", sent'[i].req, 0)
               /\ (\/ \E j \in 1..(i - 1) : sent'[j] = Ev("start", sent'[i].req, 0)
                   \/ ~\E j \in DOMAIN sent' : sent'[j] = Ev("start", sent'[i].req, 0))
    <3>1. i \in DOMAIN sent /\ sent'[i] = sent[i] /\ \A j \in 1..(i - 1) : j \in DOMAIN sent
          /\ sent'[j] = sent[j]
      BY <2>1, <1>4, <1>6
    <3>2. /\ \A j \in 1..(i - 1) : /\ sent[j] # Ev("message", sent[i].req, sent[i].attempt)
                                   /\ sent[j] # Ev("end", sent[i].req, 0)
          /\ (\/ \E j \in 1..(i - 1) : sent[j] = Ev("start", sent[i].req, 0)
              \/ ~\E j \in DOMAIN sent : sent[j] = Ev("start", sent[i].req, 0))
      BY <2>1, <3>1 DEF LiveInv, PreviewsInsideRequest
    <3>3. ASSUME ~\E j \in DOMAIN sent : sent[j] = Ev("start", sent[i].req, 0)
          PROVE  ~\E j \in DOMAIN sent' : sent'[j] = Ev("start", sent[i].req, 0)
      <4>1. StartIsBehind(sent[i].req)
        BY <2>1, <3>1 DEF LiveInv, PreparedAreBehind
      <4>2. e # Ev("start", sent[i].req, 0)
        BY <4>1, <3>3, <1>3 DEF StartIsBehind
      <4> QED BY <4>2, <3>3, <1>6
    <3> QED BY <3>1, <3>2, <3>3
  <2> QED BY <2>1 DEF PreviewsInsideRequest
<1>16. StartsOnce' /\ HeldPreview'
  BY <1>5 DEF LiveInv, StartsOnce, HeldPreview
<1> QED BY <1>7, <1>8, <1>9, <1>10, <1>11, <1>13, <1>14, <1>15, <1>16 DEF LiveInv

\* An event is sent, or a slow consumer is disconnected.
LEMMA SendStep == ASSUME LiveInv, SendEvent PROVE LiveInv'
<1>1. /\ tail.pc = "reconcile" /\ tail.batch # <<>> /\ UNCHANGED <<ledger, liveOn, previews>>
      /\ Push(Head(tail.batch), Fenced(tail, Head(tail.batch)))
  BY DEF SendEvent
<1>2. CASE Len(frames) < FrameBuffer
  BY <1>1, <1>2, EventSent DEF Push
<1>3. CASE ~(Len(frames) < FrameBuffer)
  <2>1. tail' = [tail EXCEPT !.pc = "closed"] /\ UNCHANGED <<frames, sent>>
    BY <1>1, <1>3 DEF Push
  <2>2. frames' \in Seq(FrameType) /\ Len(frames') <= FrameBuffer
    BY <2>1 DEF LiveInv, LiveTyped
  <2> QED BY <1>1, <2>1, <2>2, TailCloses
<1> QED BY <1>2, <1>3

\* A frame that is no event of the ledger is sent: no count changes, and what the
\* fences, the previews and the starts have to do with the history stays.
LEMMA NoEventSent ==
    ASSUME LiveInv, NEW f \in FrameType, ~IsEvent(f), sent' = Append(sent, f),
           Len(frames) < FrameBuffer, frames' = Append(frames, f),
           UNCHANGED <<ledger, liveOn, previews>>,
           tail' \in TailType, tail'.cursor = tail.cursor, tail'.origin = tail.origin,
           tail'.batch = tail.batch, tail'.prepared = tail.prepared,
           tail'.closedMessages = tail.closedMessages, tail'.closedRequests = tail.closedRequests,
           tail'.pc \in {"wait", "closed"},
           tail'.preview = <<>> \/ (tail'.pc = "closed" /\ tail'.preview = tail.preview),
           tail.batch = <<>>,
           f.kind = "preview" =>
              /\ StartIsBehind(f.req) /\ <<f.req, f.attempt>> \notin tail.closedMessages
              /\ f.req \notin tail.closedRequests
    PROVE  LiveInv'
<1>1. LiveTyped
  BY DEF LiveInv
<1>2. /\ sent' \in Seq(FrameType) /\ Len(sent) \in Nat /\ Len(sent') = Len(sent) + 1
      /\ \A i \in DOMAIN sent : i \in DOMAIN sent' /\ sent'[i] = sent[i]
      /\ sent'[Len(sent) + 1] = f
      /\ \A i \in DOMAIN sent' : i \in DOMAIN sent \/ i = Len(sent) + 1
      /\ DOMAIN sent = 1..Len(sent) /\ DOMAIN sent' = 1..(Len(sent) + 1)
      /\ \A i \in 0..Len(sent) : EventsSent(i)' = EventsSent(i)
      /\ EventsSent(Len(sent))' = EventsSent(Len(sent))
  BY <1>1, FrameSent
<1>3. f.kind \in {"preview", "deleted"}
  BY DEF IsEvent
<1>4. LiveTyped'
  <2>1. frames' \in Seq(FrameType) /\ Len(frames') <= FrameBuffer
    BY <1>1, FrameQueued
  <2> QED BY <2>1, <1>2 DEF LiveInv, LiveTyped
<1>5. StartsOnce' /\ BatchIsNext' /\ HeldPreview'
  BY DEF LiveInv, StartsOnce, BatchIsNext, HeldPreview
<1>6. PreviewsFollowStart'
  BY DEF LiveInv, PreviewsFollowStart, StartedBy
<1>7. CursorCounts'
  BY <1>2 DEF LiveInv, CursorCounts
<1>8. FencesAreUp'
  BY <1>2, <1>3 DEF LiveInv, FencesAreUp
<1>9. ASSUME NEW r, StartIsBehind(r) PROVE StartIsBehind(r)'
  BY <1>9, <1>2 DEF StartIsBehind, StartedBy
<1>10. PreparedAreBehind'
  <2>1. \A p \in tail'.prepared : StartIsBehind(p[1])'
    BY <1>9 DEF LiveInv, PreparedAreBehind
  <2>2. \A i \in DOMAIN sent' : sent'[i].kind = "preview" => StartIsBehind(sent[i].req)'
    <3>1. f.kind = "preview" => StartIsBehind(f.req)'
      BY <1>9
    <3>2. \A i \in DOMAIN sent : sent[i].kind = "preview" => (\E r : r = sent[i].req
          /\ StartIsBehind(r)')
      BY <1>9 DEF LiveInv, PreparedAreBehind
    <3>3. ASSUME NEW i \in DOMAIN sent', sent'[i].kind = "preview" PROVE StartIsBehind(sent[i].req)'
      <4>1. PICK r : r = sent'[i].req
        OBVIOUS
      <4>2. StartIsBehind(r)'
        BY <3>1, <3>2, <3>3, <4>1, <1>2
      <4> QED BY <4>1, <4>2 DEF StartIsBehind
    <3> QED BY <3>3
  <2> QED BY <2>1, <2>2 DEF PreparedAreBehind
<1>11. StreamHasNoGap'
  <2>1. ASSUME liveOn, NEW i \in DOMAIN sent', IsEvent(sent'[i])
        PROVE  /\ tail'.origin + EventsSent(i)' \in DOMAIN ledger
               /\ sent'[i] = ledger[tail'.origin + EventsSent(i)']
    <3>1. i \in DOMAIN sent /\ EventsSent(i)' = EventsSent(i) /\ sent'[i] = sent[i]
      BY <2>1, <1>2
    <3> QED BY <3>1, <2>1 DEF LiveInv, StreamHasNoGap
  <2> QED BY <2>1 DEF StreamHasNoGap
<1>12. PreviewsInsideRequest'
  <2>1. ASSUME NEW i \in DOMAIN sent', sent'[i].kind = "preview"
        PROVE  /\ \A j \in 1..(i - 1) :
                    /\ sent'[j] # Ev("message", sent'[i].req, sent'[i].attempt)
                    /\ sent'[j] # Ev("end", sent'[i].req, 0)
               /\ (\/ \E j \in 1..(i - 1) : sent'[j] = Ev("start", sent'[i].req, 0)
                   \/ ~\E j \in DOMAIN sent' : sent'[j] = Ev("start", sent'[i].req, 0))
    <3>0. \A r : f # Ev("start", r, 0)
      BY <1>3 DEF Ev
    <3>1. \A j \in 1..(i - 1) : j \in DOMAIN sent /\ sent'[j] = sent[j]
      BY <2>1, <1>2
    <3>2. CASE i \in DOMAIN sent
      <4>1. sent'[i] = sent[i]
        BY <3>2, <1>2
      <4>2. /\ \A j \in 1..(i - 1) : /\ sent[j] # Ev("message", sent[i].req, sent[i].attempt)
                                     /\ sent[j] # Ev("end", sent[i].req, 0)
            /\ (\/ \E j \in 1..(i - 1) : sent[j] = Ev("start", sent[i].req, 0)
                \/ ~\E j \in DOMAIN sent : sent[j] = Ev("start", sent[i].req, 0))
        BY <2>1, <3>2, <4>1 DEF LiveInv, PreviewsInsideRequest
      <4> QED BY <4>1, <4>2, <3>0, <3>1, <1>2
    <3>3. CASE i = Len(sent) + 1
      <4>1. sent'[i] = f /\ i - 1 = Len(sent) /\ f.kind = "preview"
        BY <2>1, <3>3, <1>2
      <4>2. ASSUME NEW j \in DOMAIN sent
            PROVE  sent[j] # Ev("message", f.req, f.attempt) /\ sent[j] # Ev("end", f.req, 0)
        <5>1. /\ sent[j].kind = "message" => <<sent[j].req, sent[j].attempt>> \in tail.closedMessages
              /\ sent[j].kind = "end" => sent[j].req \in tail.closedRequests
          BY DEF LiveInv, FencesAreUp
        <5>2. /\ f.req \notin tail.closedRequests
              /\ <<f.req, f.attempt>> \notin tail.closedMessages
          BY <4>1
        <5>3. ASSUME sent[j] = Ev("message", f.req, f.attempt) PROVE FALSE
          <6>1. sent[j].kind = "message" /\ sent[j].req = f.req /\ sent[j].attempt = f.attempt
            BY <5>3 DEF Ev
          <6> QED BY <6>1, <5>1, <5>2
        <5>4. sent[j] # Ev("end", f.req, 0)
          BY <5>1, <5>2 DEF Ev
        <5> QED BY <5>3, <5>4
      <4>3. \A j \in DOMAIN sent' : j \in 1..(i - 1) \/ sent'[j] = f
        BY <4>1, <1>2
      <4> QED BY <4>1, <4>2, <4>3, <3>0, <3>1
    <3> QED BY <2>1, <3>2, <3>3, <1>2
  <2> QED BY <2>1 DEF PreviewsInsideRequest
<1> QED BY <1>4, <1>5, <1>6, <1>7, <1>8, <1>10, <1>11, <1>12 DEF LiveInv

\* A reconcile ends: the preview that waited is prepared, or the Session is gone.
LEMMA EndStep == ASSUME LiveInv, EndReconcile PROVE LiveInv'
<1>1. /\ tail.pc = "reconcile" /\ tail.batch = <<>> /\ UNCHANGED <<ledger, liveOn, previews>>
  BY DEF EndReconcile
<1>2. tail \in TailType /\ LiveTyped
  BY DEF LiveInv, LiveTyped
<1>3. CASE ~liveOn
  <2>1. PICK f : f = Ev("deleted", 0, 0)
    OBVIOUS
  <2>2. f \in FrameType /\ f.kind = "deleted" /\ ~IsEvent(f)
    BY <2>1 DEF Ev, FrameType, EventKinds, IsEvent
  <2>3. /\ Len(frames) < FrameBuffer /\ frames' = Append(frames, f) /\ sent' = Append(sent, f)
        /\ tail' = [tail EXCEPT !.pc = "closed"]
    BY <1>3, <2>1 DEF EndReconcile
  <2>4. /\ tail' \in TailType /\ tail'.pc = "closed" /\ tail'.cursor = tail.cursor
        /\ tail'.origin = tail.origin /\ tail'.batch = tail.batch /\ tail'.prepared = tail.prepared
        /\ tail'.closedMessages = tail.closedMessages /\ tail'.closedRequests = tail.closedRequests
        /\ tail'.preview = tail.preview
    BY <1>2, <2>3 DEF TailType, TailPcs
  <2> QED BY <1>1, <2>2, <2>3, <2>4, NoEventSent
<1>4. CASE liveOn
  <2>1. PICK pc \in {"wait", "forward"} : pc = IF tail.preview = <<>> THEN "wait" ELSE "forward"
    OBVIOUS
  <2>2. PICK ready : ready = tail.prepared \cup ToSet(tail.preview)
    OBVIOUS
  <2>3. tail' = [tail EXCEPT !.pc = pc, !.prepared = ready] /\ UNCHANGED <<frames, sent>>
    BY <1>4, <2>1, <2>2 DEF EndReconcile
  <2>4. ready \in SUBSET PreviewType /\ ready = tail.prepared
          \cup {tail.preview[i] : i \in DOMAIN tail.preview}
    BY <1>2, <2>2 DEF TailType, ToSet
  <2>5. /\ tail' \in TailType /\ tail'.pc = pc /\ tail'.cursor = tail.cursor
        /\ tail'.origin = tail.origin /\ tail'.batch = tail.batch /\ tail'.preview = tail.preview
        /\ tail'.prepared = ready
        /\ tail'.closedMessages = tail.closedMessages /\ tail'.closedRequests = tail.closedRequests
    BY <1>2, <2>1, <2>3, <2>4 DEF TailType, TailPcs
  <2>6. LiveTyped'
    BY <1>1, <2>3, <2>5 DEF LiveInv, LiveTyped
  <2>7. BatchIsNext' /\ PreviewsFollowStart'
    BY <1>1, <2>1, <2>5 DEF LiveInv, BatchIsNext, PreviewsFollowStart, StartedBy
  <2>8. HeldPreview'
    <3>1. Len(tail.preview) <= 1 /\ tail.preview \in Seq(PreviewType)
      BY <1>2 DEF LiveInv, HeldPreview, TailType
    <3>2. tail.preview # <<>> => Len(tail.preview) = 1 /\ 1 \in DOMAIN tail.preview
      <4>1. PICK s \in Seq(PreviewType) : s = tail.preview
        BY <3>1
      <4>2. s # <<>> => Len(s) # 0 /\ Len(s) \in Nat
        OBVIOUS
      <4>5. PICK n \in Nat : n = Len(s)
        BY <4>1
      <4>6. n <= 1
        BY <3>1, <4>1, <4>5
      <4>7. n = 0 \/ n = 1
        BY <4>6
      <4>3. s # <<>> => Len(s) = 1
        BY <4>2, <4>5, <4>7
      <4>4. Len(s) = 1 => 1 \in DOMAIN s
        OBVIOUS
      <4> QED BY <4>1, <4>3, <4>4
    <3>3. pc = "forward" => tail.preview # <<>>
      BY <2>1
    <3>4. pc = "forward" => Len(tail.preview) = 1 /\ tail.preview[1] \in ready
      BY <3>2, <3>3, <2>4
    <3>5. pc \in {"wait"} => tail.preview = <<>>
      BY <2>1
    <3> QED BY <1>1, <2>1, <2>5, <3>1, <3>4, <3>5 DEF HeldPreview
  <2>9. ASSUME NEW r, StartIsBehind(r) PROVE StartIsBehind(r)'
    BY <2>9, <1>1, <2>3, <2>5 DEF StartIsBehind, StartedBy
  <2>10. PreparedAreBehind'
    <3>1. ASSUME NEW i \in DOMAIN tail.preview PROVE StartIsBehind(tail.preview[i][1])
      <4>1. StartedBy(tail.preview[i][1], tail.cursor + Len(tail.batch))
        BY <1>1, <1>4 DEF LiveInv, PreviewsFollowStart
      <4>2. tail.cursor + Len(tail.batch) = tail.cursor
        BY <1>1, <1>2 DEF TailType
      <4>3. StartedBy(tail.preview[i][1], tail.cursor)
        BY <4>1, <4>2
      <4> QED BY <4>3, <1>1 DEF StartIsBehind
    <3>2. \A p \in ready : StartIsBehind(p[1])
      BY <3>1, <2>4 DEF LiveInv, PreparedAreBehind
    <3>3. \A i \in DOMAIN sent : sent[i].kind = "preview" => StartIsBehind(sent[i].req)'
      <4>1. \A i \in DOMAIN sent : sent[i].kind = "preview" => StartIsBehind(sent[i].req)
        BY DEF LiveInv, PreparedAreBehind
      <4> QED BY <4>1, <1>1, <2>3, <2>5 DEF StartIsBehind, StartedBy
    <3> QED BY <3>2, <3>3, <2>3, <2>5, <2>9 DEF PreparedAreBehind
  <2> QED BY <1>1, <2>1, <2>3, <2>5, <2>6, <2>7, <2>8, <2>10
     DEF LiveInv, StartsOnce, CursorCounts, EventsSent, FencesAreUp, StreamHasNoGap,
         PreviewsInsideRequest
<1> QED BY <1>3, <1>4

\* A prepared preview is forwarded unless a fence stops it.
LEMMA ForwardStep == ASSUME LiveInv, ForwardPreview PROVE LiveInv'
<1>1. tail.pc = "forward" /\ UNCHANGED <<ledger, liveOn, previews>>
  BY DEF ForwardPreview
<1>2. /\ tail \in TailType /\ LiveTyped /\ tail.batch = <<>> /\ tail.preview \in Seq(PreviewType)
      /\ Len(tail.preview) = 1 /\ tail.preview[1] \in tail.prepared
  BY <1>1 DEF LiveInv, LiveTyped, HeldPreview, TailType
<1>3. PICK p : p = Head(tail.preview)
  OBVIOUS
<1>4. /\ p \in PreviewType /\ p \in tail.prepared
  BY <1>2, <1>3
<1>5. p[1] \in ModelRequests /\ p[2] \in Attempts /\ p = <<p[1], p[2]>>
  BY <1>4 DEF PreviewType
<1>6. PICK f : f = Ev("preview", p[1], p[2])
  OBVIOUS
<1>7. /\ f \in FrameType /\ f.kind = "preview" /\ ~IsEvent(f) /\ f.req = p[1] /\ f.attempt = p[2]
  BY <1>5, <1>6 DEF Ev, FrameType, EventKinds, IsEvent
<1>8. PICK none \in Seq(PreviewType) : none = <<>>
  <2>1. <<>> \in Seq(PreviewType)
    OBVIOUS
  <2> QED BY <2>1
<1>9. PICK done : done = [tail EXCEPT !.pc = "wait", !.preview = none]
  OBVIOUS
<1>10. /\ done \in TailType /\ done.pc = "wait" /\ done.cursor = tail.cursor
       /\ done.origin = tail.origin /\ done.batch = tail.batch /\ done.preview = <<>>
       /\ done.prepared = tail.prepared
       /\ done.closedMessages = tail.closedMessages /\ done.closedRequests = tail.closedRequests
  BY <1>2, <1>8, <1>9 DEF TailType, TailPcs
<1>11. IF p \in tail.closedMessages \/ p[1] \in tail.closedRequests
         THEN tail' = done /\ UNCHANGED <<frames, sent>> ELSE Push(f, done)
  BY <1>3, <1>6, <1>8, <1>9 DEF ForwardPreview
<1>12. CASE p \in tail.closedMessages \/ p[1] \in tail.closedRequests
  <2>1. tail' = done /\ UNCHANGED <<frames, sent>>
    BY <1>11, <1>12
  <2>2. LiveTyped'
    BY <1>1, <1>10, <2>1 DEF LiveInv, LiveTyped
  <2>3. BatchIsNext' /\ PreviewsFollowStart' /\ HeldPreview'
    BY <1>1, <1>2, <1>10, <2>1 DEF LiveInv, BatchIsNext, PreviewsFollowStart, StartedBy, HeldPreview
  <2>4. PreparedAreBehind'
    BY <1>1, <1>10, <2>1 DEF LiveInv, PreparedAreBehind, StartIsBehind, StartedBy
  <2> QED BY <1>1, <1>10, <2>1, <2>2, <2>3, <2>4
     DEF LiveInv, StartsOnce, CursorCounts, EventsSent, FencesAreUp, StreamHasNoGap,
         PreviewsInsideRequest
<1>13. CASE ~(p \in tail.closedMessages \/ p[1] \in tail.closedRequests)
  <2>1. Push(f, done)
    BY <1>11, <1>13
  <2>2. CASE Len(frames) < FrameBuffer
    <3>1. frames' = Append(frames, f) /\ sent' = Append(sent, f) /\ tail' = done
      BY <2>1, <2>2 DEF Push
    <3>2. StartIsBehind(p[1])
      BY <1>4 DEF LiveInv, PreparedAreBehind
    <3>3. /\ StartIsBehind(f.req) /\ <<f.req, f.attempt>> \notin tail.closedMessages
          /\ f.req \notin tail.closedRequests
      BY <3>2, <1>5, <1>7, <1>13
    <3>4. /\ tail' \in TailType /\ tail'.pc = "wait" /\ tail'.cursor = tail.cursor
          /\ tail'.origin = tail.origin /\ tail'.batch = tail.batch /\ tail'.preview = <<>>
          /\ tail'.prepared = tail.prepared
          /\ tail'.closedMessages = tail.closedMessages /\ tail'.closedRequests = tail.closedRequests
      BY <3>1, <1>10
    <3> HIDE DEF LiveInv
    <3> QED BY <3>1, <3>3, <3>4, <2>2, <1>1, <1>2, <1>7, NoEventSent
  <2>3. CASE ~(Len(frames) < FrameBuffer)
    <3>1. tail' = [tail EXCEPT !.pc = "closed"] /\ UNCHANGED <<frames, sent>>
      BY <2>1, <2>3 DEF Push
    <3>2. frames' \in Seq(FrameType) /\ Len(frames') <= FrameBuffer
      BY <3>1 DEF LiveInv, LiveTyped
    <3> QED BY <1>1, <3>1, <3>2, TailCloses
  <2> QED BY <2>2, <2>3
<1> QED BY <1>12, <1>13

\* The handler writes a frame: the channel empties, the history stays.
LEMMA WriteStep == ASSUME LiveInv, WriteFrame PROVE LiveInv'
<1>1. frames # <<>> /\ frames' = Tail(frames) /\ UNCHANGED <<ledger, liveOn, previews, tail, sent>>
  BY DEF WriteFrame
<1>2. frames \in Seq(FrameType) /\ Len(frames) <= FrameBuffer /\ FrameBuffer \in Nat
  BY LiveStreamAssumption DEF LiveInv, LiveTyped
<1>3. frames' \in Seq(FrameType) /\ Len(frames') <= FrameBuffer
  BY <1>1, <1>2
<1>4. LiveTyped'
  BY <1>1, <1>3 DEF LiveInv, LiveTyped
<1> QED BY <1>1, <1>4
   DEF LiveInv, StartsOnce, BatchIsNext, CursorCounts, EventsSent, FencesAreUp, PreviewsFollowStart,
       PreparedAreBehind, StartIsBehind, StartedBy, HeldPreview, StreamHasNoGap, PreviewsInsideRequest

\* Every step of a stream keeps the invariant.
LEMMA LiveStep == LiveInv /\ [LiveNext]_liveVars => LiveInv'
<1> SUFFICES ASSUME LiveInv, [LiveNext]_liveVars PROVE LiveInv'
  OBVIOUS
<1>1. CASE UNCHANGED liveVars
  <2>1. UNCHANGED <<ledger, liveOn, previews, tail, frames, sent>>
    BY <1>1 DEF liveVars
  <2>2. LiveTyped' /\ StartsOnce' /\ BatchIsNext'
    BY <2>1 DEF LiveInv, LiveTyped, StartsOnce, BatchIsNext
  <2>3. CursorCounts' /\ FencesAreUp' /\ HeldPreview'
    BY <2>1 DEF LiveInv, CursorCounts, EventsSent, FencesAreUp, HeldPreview
  <2>4. PreviewsFollowStart' /\ PreparedAreBehind'
    BY <2>1 DEF LiveInv, PreviewsFollowStart, PreparedAreBehind, StartIsBehind, StartedBy
  <2>5. StreamHasNoGap' /\ PreviewsInsideRequest'
    BY <2>1 DEF LiveInv, StreamHasNoGap, EventsSent, PreviewsInsideRequest
  <2> QED BY <2>2, <2>3, <2>4, <2>5 DEF LiveInv
<1>2. CASE CancelStream
  <2>1. /\ tail.pc \notin {"off", "cursor"} /\ tail' = [tail EXCEPT !.pc = "closed"]
        /\ UNCHANGED <<ledger, liveOn, previews, frames, sent>>
    BY <1>2 DEF CancelStream, Subscribed
  <2>2. frames' \in Seq(FrameType) /\ Len(frames') <= FrameBuffer
    BY <2>1 DEF LiveInv, LiveTyped
  <2> QED BY <2>1, <2>2, TailCloses
<1>3. CASE LiveNext /\ ~CancelStream
  BY <1>3, StartRequestStep, CommitRequestStep, PublishStep, DeleteStep, CursorStep, SubscribeStep,
     ReconcileStep, ReceiveStep, SendStep, EndStep, ForwardStep, WriteStep DEF LiveNext
<1> QED BY <1>1, <1>2, <1>3

\* The stream of a Session is its ledger from the cursor on, each event once and in
\* order, with every preview inside its request, whatever is lost or closed.
THEOREM StreamExact == LiveSpec => [](StreamIsExact /\ LiveTypeOK)
<1>1. LiveInv => StreamIsExact
  BY DEF LiveInv, StreamIsExact
<1>2. LiveInv => LiveTypeOK
  <2> SUFFICES ASSUME LiveInv PROVE LiveTypeOK
    OBVIOUS
  <2>1. tail.cursor \in Nat /\ tail.origin \in Nat /\ tail.pc \in TailPcs /\ Len(frames) <= FrameBuffer
    BY DEF LiveInv, LiveTyped, TailType
  <2>2. EventsSent(Len(sent)) \in Nat
    <3>1. PICK s \in Seq(FrameType) : s = sent
      BY DEF LiveInv, LiveTyped
    <3>2. PICK f \in FrameType : f = Ev("deleted", 0, 0)
      BY DEF Ev, FrameType
    <3>3. Count(s, Len(s)) \in Nat
      BY <3>2, CountAppended
    <3> QED BY <3>1, <3>3 DEF EventsSent, Count
  <2>3. tail.cursor = tail.origin + EventsSent(Len(sent))
    BY DEF LiveInv, CursorCounts
  <2> QED BY <2>1, <2>2, <2>3 DEF LiveTypeOK, TailPcs
<1> QED BY <1>1, <1>2, LiveInitInv, LiveStep, PTL DEF LiveSpec

-----------------------------------------------------------------------------
(* The type invariants of the components, and the control plane as a whole *)

\* no time is ahead of the clock, and only events that were admitted are open
WorkTimes ==
    /\ workNow <= MaxWorkTime /\ workOpen \subseteq 1..workSeq /\ overtaken \subseteq 1..workSeq
    /\ \A i \in WorkIds : {work[i].polled, work[i].acked, work[i].heartbeat, work[i].stopRequested}
                            \subseteq 0..workNow
    /\ \A r \in Runners : runner[r].item \in WorkIds \cup {0} /\ runner[r].expected <= workNow

\* the times of an item
Past(w) == {w.polled, w.acked, w.heartbeat, w.stopRequested} \subseteq 0..workNow

\* Recovery and a new item bring no time that is still to come.
LEMMA PastItems ==
    ASSUME WorkTyped, NEW w \in WorkType, Past(w)
    PROVE  Past(Recovered(w)) /\ \A seq : Past([NoWork EXCEPT !.state = "queued", !.activation = seq])
  <1>1. /\ [w EXCEPT !.state = "stopped"].polled = w.polled
        /\ [w EXCEPT !.state = "stopped"].acked = w.acked
        /\ [w EXCEPT !.state = "stopped"].heartbeat = w.heartbeat
        /\ [w EXCEPT !.state = "stopped"].stopRequested = w.stopRequested
    BY DEF WorkType
  <1>2. [w EXCEPT !.state = "queued", !.acked = 0, !.heartbeat = 0, !.polled = 0]
          = [state |-> "queued", activation |-> w.activation, polled |-> 0, acked |-> 0,
             heartbeat |-> 0, stopRequested |-> w.stopRequested]
    <2>1. PICK v : v = [w EXCEPT !.state = "queued", !.acked = 0, !.heartbeat = 0, !.polled = 0]
      OBVIOUS
    <2>2. v = [state |-> "queued", activation |-> w.activation, polled |-> 0, acked |-> 0,
               heartbeat |-> 0, stopRequested |-> w.stopRequested]
      BY <2>1 DEF WorkType
    <2> QED BY <2>1, <2>2
  <1>3. Past(Recovered(w))
    BY <1>1, <1>2 DEF Past, Recovered, WorkTyped
  <1>4. \A seq : Past([NoWork EXCEPT !.state = "queued", !.activation = seq])
    BY DEF Past, NoWork, WorkTyped
  <1> QED BY <1>3, <1>4

\* A queued item that is inserted, or updated in place, brings no time to come.
LEMMA PastInsert ==
    ASSUME WorkTyped, NEW items \in [WorkIds -> WorkType], NEW seq \in Nat, \A i \in WorkIds : Past(items[i])
    PROVE  \A i \in WorkIds : Past(InsertWork(items, seq)[i])
  <1>1. \A q : Past([NoWork EXCEPT !.state = "queued", !.activation = q])
    BY DEF Past, NoWork, WorkTyped
  <1>2. \A x, v : \A i \in WorkIds : [items EXCEPT ![x] = v][i] = v \/ [items EXCEPT ![x] = v][i] = items[i]
    OBVIOUS
  <1> QED BY <1>1, <1>2 DEF InsertWork

\* Every handler stamps with the database's clock or with nothing.
LEMMA WorkTimesStep == WorkInv /\ WorkTimes /\ [WorkNext]_workVars => WorkTimes'
  <1> SUFFICES ASSUME WorkInv, WorkTimes, [WorkNext]_workVars PROVE WorkTimes'
    OBVIOUS
  <1> USE EnvironmentWorkAssumption
  <1>a. WorkTyped /\ \A i \in WorkIds : work[i] \in WorkType /\ Past(work[i])
    BY DEF WorkInv, WorkTyped, WorkTimes, Past
  <1>b. \A r \in Runners : /\ runner[r] \in RunnerType /\ runner[r].item \in WorkIds \cup {0}
                           /\ runner[r].expected <= workNow
    BY <1>a DEF WorkTimes, WorkTyped
  <1>c. ASSUME workNow' = workNow, workOpen' \subseteq 1..workSeq',
               overtaken' \subseteq 1..workSeq',
               \A i \in WorkIds : Past(work'[i]),
               \A r \in Runners : runner'[r].item \in WorkIds \cup {0} /\ runner'[r].expected <= workNow
        PROVE  WorkTimes'
    BY <1>c DEF WorkTimes, Past
  <1>d. NoRunner.item = 0 /\ NoRunner.expected = 0 /\ NoRunner.expected <= workNow
    BY <1>a DEF NoRunner, WorkTyped
  <1>e. workNow \in Nat \ {0} /\ workSeq \in Nat /\ workOpen \subseteq 1..workSeq
          /\ overtaken \subseteq 1..workSeq /\ work \in [WorkIds -> WorkType]
          /\ runner \in [Runners -> RunnerType]
    BY <1>a DEF WorkTyped, WorkTimes
  <1>1. CASE EnqueueEnvironmentWork \/ AbortAdmission
    BY <1>1, <1>a, <1>b, <1>c, <1>e DEF EnqueueEnvironmentWork, AbortAdmission
  <1>10. CASE CommitAdmission
    <2>1. workSeq' = workSeq + 1 /\ admitting.seq = workSeq + 1
      BY <1>10 DEF CommitAdmission, WorkInv, AdmissionWaits
    <2>2. workOpen' \subseteq 1..workSeq' /\ overtaken' \subseteq 1..workSeq'
      <3>1. /\ workOpen' = workOpen \cup {workSeq + 1}
            /\ overtaken' \subseteq overtaken \cup {workSeq + 1}
        BY <1>10, <2>1 DEF CommitAdmission
      <3> QED BY <2>1, <3>1, <1>e
    <2>3. \A i \in WorkIds : Past(work'[i])
      BY <1>10, <2>1, <1>a, <1>e, PastInsert DEF CommitAdmission
    <2> QED BY <1>10, <1>b, <1>c, <2>2, <2>3 DEF CommitAdmission
  <1>2. CASE ProcessRunnable
    BY <1>2, <1>a, <1>b, <1>c, <1>e DEF ProcessRunnable
  <1>3. CASE WorkTick
    <2>1. \A i \in WorkIds : {work[i].polled, work[i].acked, work[i].heartbeat, work[i].stopRequested}
                            \subseteq 0..(workNow + 1)
      BY <1>a, <1>e DEF Past
    <2>2. \A r \in Runners : runner[r].expected <= workNow + 1
      BY <1>b, <1>e DEF RunnerType
    <2> QED BY <1>3, <1>b, <1>e, <2>1, <2>2 DEF WorkTick, WorkTimes
  <1>4. ASSUME NEW r \in Runners, PollWork(r) PROVE WorkTimes'
    <2> DEFINE items == [i \in WorkIds |-> Recovered(work[i])]
               found == Candidates(items)
    <2>1. \A i \in WorkIds : Past(items[i]) /\ items[i] \in WorkType
      BY <1>a, PastItems, RecoveredItem
    <2>2. found # {} => Min(found) \in WorkIds
      <3>1. found \in SUBSET Nat /\ found \subseteq WorkIds
        BY DEF WorkIds, Candidates
      <3> HIDE DEF found
      <3> QED BY <3>1, MinIsLeast
    <2>3. work' = IF found = {} THEN items ELSE [items EXCEPT ![Min(found)].polled = workNow]
      BY <1>4 DEF PollWork
    <2>4. runner' = IF found = {} THEN runner
                     ELSE [runner EXCEPT ![r] = [NoRunner EXCEPT !.item = Min(found), !.phase = "polled"]]
      BY <1>4 DEF PollWork
    <2> HIDE DEF found
    <2>5. \A i \in WorkIds : Past(work'[i])
      <3> SUFFICES ASSUME NEW i \in WorkIds PROVE Past(work'[i])
        OBVIOUS
      <3>1. work'[i] = items[i] \/ work'[i] = [items[i] EXCEPT !.polled = workNow]
        BY <2>3
      <3> HIDE DEF items
      <3> QED BY <3>1, <2>1, <1>e DEF Past, WorkType
    <2>6. \A s \in Runners : runner'[s].item \in WorkIds \cup {0} /\ runner'[s].expected <= workNow
      BY <2>2, <2>4, <1>b, <1>e DEF NoRunner
    <2> QED BY <1>4, <2>5, <2>6, <1>c, <1>e DEF PollWork
  <1>5. ASSUME NEW r \in Runners, AckWork(r) PROVE WorkTimes'
    <2>1. \A i \in WorkIds : /\ work'[i].acked \in {work[i].acked, workNow}
                            /\ work'[i].polled = work[i].polled /\ work'[i].heartbeat = work[i].heartbeat
                            /\ work'[i].stopRequested = work[i].stopRequested
      BY <1>5, <1>e DEF AckWork, WorkType
    <2>2. \A i \in WorkIds : Past(work'[i])
      BY <2>1, <1>a, <1>e DEF Past
    <2>3. \A s \in Runners : /\ runner'[s].item \in {runner[s].item, 0}
                            /\ runner'[s].expected \in {runner[s].expected, 0}
      BY <1>5, <1>e DEF AckWork, RunnerType, NoRunner
    <2>4. \A s \in Runners : runner'[s].item \in WorkIds \cup {0} /\ runner'[s].expected <= workNow
      BY <2>3, <1>b, <1>d DEF RunnerType
    <2> QED BY <1>5, <2>2, <2>4, <1>c, <1>e DEF AckWork
  <1>6. ASSUME NEW r \in Runners, HeartbeatWork(r) PROVE WorkTimes'
    <2>1. \A i \in WorkIds : /\ work'[i].heartbeat \in {work[i].heartbeat, workNow}
                            /\ work'[i].polled = work[i].polled /\ work'[i].acked = work[i].acked
                            /\ work'[i].stopRequested = work[i].stopRequested
      BY <1>6, <1>e DEF HeartbeatWork, WorkType
    <2>2. \A i \in WorkIds : Past(work'[i])
      BY <2>1, <1>a, <1>e DEF Past
    <2>3. \A s \in Runners : /\ runner'[s].item \in {runner[s].item, 0}
                            /\ runner'[s].expected \in {runner[s].expected, 0, workNow}
      BY <1>6, <1>e DEF HeartbeatWork, RunnerType, NoRunner
    <2>4. \A s \in Runners : runner'[s].item \in WorkIds \cup {0} /\ runner'[s].expected <= workNow
      BY <2>3, <1>b, <1>d, <1>e DEF RunnerType
    <2> QED BY <1>6, <2>2, <2>4, <1>c, <1>e DEF HeartbeatWork
  <1>7. ASSUME NEW r \in Runners, RunnerQuits(r) PROVE WorkTimes'
    BY <1>7, <1>a, <1>b, <1>c, <1>d, <1>e DEF RunnerQuits
  <1>8. ASSUME NEW i \in WorkIds, NEW force \in BOOLEAN, StopWork(i, force) PROVE WorkTimes'
    <2> DEFINE over == force \/ work[i].state \in {"queued", "starting"}
               stopped == [work EXCEPT
          ![i].state = IF over THEN "stopped" ELSE "stopping",
          ![i].stopRequested = IF @ = 0 THEN workNow ELSE @]
    <2>1. stopped \in [WorkIds -> WorkType]
      <3>1. PICK row : row = stopped[i]
        OBVIOUS
      <3>2. row = [work[i] EXCEPT !.state = IF over THEN "stopped" ELSE "stopping",
                                  !.stopRequested = IF @ = 0 THEN workNow ELSE @]
        BY <3>1, <1>e DEF WorkType
      <3>3. row \in WorkType
        BY <3>2, <1>e DEF WorkType
      <3>4. stopped = [work EXCEPT ![i] = row]
        BY <3>1, <1>e
      <3> QED BY <3>3, <3>4, <1>e
    <2>2. \A j \in WorkIds : /\ stopped[j].stopRequested \in {work[j].stopRequested, workNow}
                            /\ stopped[j].polled = work[j].polled /\ stopped[j].acked = work[j].acked
                            /\ stopped[j].heartbeat = work[j].heartbeat
      BY <1>e DEF WorkType
    <2>3. PICK seq \in Nat : work' = IF NewInput(i) # {} THEN InsertWork(stopped, seq) ELSE stopped
      <3>1. work[i].activation..workSeq \subseteq Nat
        BY <1>a, <1>e DEF WorkType
      <3> QED BY <1>8, <3>1 DEF StopWork
    <2> HIDE DEF over, stopped
    <2>4. \A j \in WorkIds : Past(stopped[j])
      BY <2>2, <1>a, <1>e DEF Past
    <2>5. \A j \in WorkIds : Past(work'[j])
      BY <2>1, <2>3, <2>4, <1>a, <1>e, PastInsert
    <2> QED BY <1>8, <2>5, <1>b, <1>c, <1>e DEF StopWork
  <1>9. CASE UNCHANGED workVars
    BY <1>9, <1>a, <1>b, <1>c, <1>e DEF workVars
  <1> QED BY <1>1, <1>2, <1>3, <1>4, <1>5, <1>6, <1>7, <1>8, <1>9, <1>10 DEF WorkNext

\* The type invariant of the work queue, once its clock can be read at all.
LEMMA WorkTypes ==
    ASSUME MaxWorkTime # 0
    PROVE  WorkSpec => []WorkTypeOK
  <1>1. WorkInit => WorkTimes
    BY EnvironmentWorkAssumption DEF WorkInit, WorkTimes, NoWork, NoRunner
  <1>2. WorkInv /\ WorkTimes => WorkTypeOK
    BY DEF WorkInv, WorkTyped, WorkTimes, AdmissionWaits, NoAdmission, WorkTypeOK, WorkType
  <1> QED BY <1>1, <1>2, WorkInitInv, WorkStep, WorkTimesStep, PTL DEF WorkSpec

-----------------------------------------------------------------------------
\* requests, active time and the ceiling stay within their bounds
BudgetBounds ==
    /\ ceiling \in Ceilings /\ cost.runtime <= MaxRuntime
    /\ \A t \in BudgetThreads : turn[t].req <= MaxRequests

\* A request is accounted under its number, active time up to its bound, the
\* ceiling is replaced by another one.
LEMMA BudgetBoundsStep == BudgetInv /\ BudgetBounds /\ [BudgetNext]_budgetVars => BudgetBounds'
  <1> SUFFICES ASSUME BudgetInv, BudgetBounds, [BudgetNext]_budgetVars PROVE BudgetBounds'
    OBVIOUS
  <1>a. /\ turn \in [BudgetThreads -> TurnType] /\ cost \in [model : Nat, runtime : Nat, known : BOOLEAN]
        /\ ceiling \in Ceilings /\ MaxRequests \in Nat /\ MaxRuntime \in Nat
        /\ cost.runtime \in Nat /\ cost.runtime <= MaxRuntime
        /\ \A t \in BudgetThreads : turn[t] \in TurnType /\ turn[t].req \in Nat /\ turn[t].req <= MaxRequests
    BY BudgetAssumption DEF BudgetInv, BudgetTyped, BudgetBounds, TurnType
  <1>b. ASSUME UNCHANGED <<ceiling, cost>>, NEW t \in BudgetThreads, NEW row, turn' = [turn EXCEPT ![t] = row],
               row.req \in Nat, row.req <= MaxRequests
        PROVE  BudgetBounds'
    BY <1>a, <1>b DEF BudgetBounds
  <1>c. ASSUME NEW t \in BudgetThreads, NEW pc
        PROVE  /\ [turn EXCEPT ![t].pc = pc] = [turn EXCEPT ![t] = [turn[t] EXCEPT !.pc = pc]]
               /\ [turn[t] EXCEPT !.pc = pc].req = turn[t].req
    BY <1>a DEF TurnType
  <1>1. ASSUME NEW t \in BudgetThreads,
               AdmitModelRequest(t) \/ WaitForWakeup(t) \/ BeginTurn(t)
        PROVE  BudgetBounds'
    <2>1. UNCHANGED <<ceiling, cost>>
      BY <1>1 DEF AdmitModelRequest, WaitForWakeup, BeginTurn
    <2>2. PICK pc : turn' = [turn EXCEPT ![t].pc = pc]
      BY <1>1 DEF AdmitModelRequest, WaitForWakeup, BeginTurn
    <2>3. turn' = [turn EXCEPT ![t] = [turn[t] EXCEPT !.pc = pc]] /\ [turn[t] EXCEPT !.pc = pc].req = turn[t].req
      BY <2>2, <1>c
    <2> QED BY <2>1, <2>3, <1>a, <1>b
  <1>2. ASSUME NEW t \in BudgetThreads, CallProvider(t) PROVE BudgetBounds'
    <2>1. PICK q \in 1..MaxRequests : turn' = [turn EXCEPT ![t].pc = "account", ![t].req = q]
      BY <1>2 DEF CallProvider
    <2>2. \A s \in BudgetThreads : turn'[s].req \in {turn[s].req, q}
      BY <2>1, <1>a DEF TurnType
    <2> QED BY <1>2, <2>2, <1>a DEF CallProvider, BudgetBounds
  <1>3. ASSUME NEW t \in BudgetThreads, EndTurn(t) PROVE BudgetBounds'
    <2>1. UNCHANGED <<ceiling, cost>>
      BY <1>3 DEF EndTurn
    <2>2. PICK pc : turn' = [turn EXCEPT ![t] = [pc |-> pc, kind |-> "model", req |-> 0]]
      BY <1>3 DEF EndTurn
    <2>3. PICK row : row = [pc |-> pc, kind |-> "model", req |-> 0]
      OBVIOUS
    <2>4. turn' = [turn EXCEPT ![t] = row] /\ row.req \in Nat /\ row.req <= MaxRequests
      BY <2>2, <2>3, <1>a
    <2> QED BY <2>1, <2>4, <1>b
  <1>4. ASSUME NEW t \in BudgetThreads, NEW kind, NextRequest(t, kind) PROVE BudgetBounds'
    <2>1. PICK row : row = [pc |-> "admit", kind |-> kind, req |-> 0]
      OBVIOUS
    <2>2. UNCHANGED <<ceiling, cost>> /\ turn' = [turn EXCEPT ![t] = row]
      BY <1>4, <2>1 DEF NextRequest
    <2>3. row.req \in Nat /\ row.req <= MaxRequests
      BY <2>1, <1>a
    <2> QED BY <2>2, <2>3, <1>b
  <1>5. ASSUME NEW t \in BudgetThreads, AdmitBudgetInterrupt(t) PROVE BudgetBounds'
    BY <1>5, <1>a DEF AdmitBudgetInterrupt, BudgetBounds
  <1>6. ASSUME NEW t \in BudgetThreads, NEW known \in BOOLEAN, NEW acked \in BOOLEAN,
               AccountModelRequest(t, known, acked)
        PROVE  BudgetBounds'
    <2>1. cost'.runtime = cost.runtime /\ ceiling' = ceiling
      BY <1>6, <1>a DEF AccountModelRequest
    <2>2. turn' = turn \/ turn' = [turn EXCEPT ![t].pc = "next"]
      BY <1>6 DEF AccountModelRequest
    <2>3. \A s \in BudgetThreads : turn'[s].req = turn[s].req
      BY <2>2, <1>a DEF TurnType
    <2> QED BY <2>1, <2>3, <1>a DEF BudgetBounds
  <1>7. CASE AdmitUserMessage
    BY <1>7, <1>a DEF AdmitUserMessage, BudgetBounds
  <1>8. CASE AccrueRuntime
    <2>1. cost'.runtime = cost.runtime + 1 /\ cost.runtime < MaxRuntime
      BY <1>8, <1>a DEF AccrueRuntime
    <2> QED BY <1>8, <2>1, <1>a DEF AccrueRuntime, BudgetBounds
  <1>9. ASSUME NEW new \in Ceilings, UpdateBudget(new) PROVE BudgetBounds'
    BY <1>9, <1>a DEF UpdateBudget, BudgetBounds
  <1>10. CASE UNCHANGED budgetVars
    BY <1>10, <1>a DEF budgetVars, BudgetBounds
  <1> QED BY <1>1, <1>2, <1>3, <1>4, <1>5, <1>6, <1>7, <1>8, <1>9, <1>10 DEF BudgetNext

\* The type invariant of the budget.
LEMMA BudgetTypes == BudgetSpec => []BudgetTypeOK
  <1>1. BudgetInit => BudgetBounds
    BY BudgetAssumption DEF BudgetInit, BudgetBounds
  <1>2. BudgetInv /\ BudgetBounds => BudgetTypeOK
    BY BudgetAssumption DEF BudgetInv, BudgetTyped, BudgetBounds, BudgetTypeOK, ThrType, TurnType
  <1> QED BY <1>1, <1>2, BudgetInitInv, BudgetStep, BudgetBoundsStep, PTL DEF BudgetSpec

\* The type invariant of the Deployments: its bounds are in the invariant.
LEMMA DeploymentTypes == DeploymentSpec => []DeploymentTypeOK
  <1>1. DeployInv => DeploymentTypeOK
    BY DEF DeployInv, DeployTyped, DeploymentTypeOK, Derived, Row, CallerKnows
  <1> QED BY <1>1, DeployInitInv, DeployStep, PTL DEF DeploymentSpec

-----------------------------------------------------------------------------
\* the clock, and with it every key, stays within its bound
StampsGiven == stamp <= MaxStamp /\ \A i \in Present : rows[i].at <= MaxStamp

\* A row is inserted, renamed or processed under a key that has been given.
LEMMA StampsGivenStep == ListInv /\ StampsGiven /\ [ListingNext]_listVars => StampsGiven'
  <1> SUFFICES ASSUME ListInv, StampsGiven, [ListingNext]_listVars PROVE StampsGiven'
    OBVIOUS
  <1>a. /\ stamp \in Nat /\ MaxStamp \in Nat /\ lastRow \in Nat /\ Present \subseteq 1..lastRow
        /\ rows \in [Present -> RowValue] /\ Present = DOMAIN rows
        /\ stamp <= MaxStamp /\ \A i \in Present : rows[i] \in RowValue /\ rows[i].at <= MaxStamp
    BY ListingAssumption DEF ListInv, ListTyped, StampsGiven, Present
  <1>b. ASSUME NEW at \in Nat, NEW shown, at <= MaxStamp, rows' = Inserted(at, shown),
               stamp' \in Nat, stamp' <= MaxStamp
        PROVE  StampsGiven'
    <2>1. DOMAIN rows' = Present \cup {lastRow'}
      BY <1>b DEF Inserted
    <2>2. \A i \in DOMAIN rows' : rows'[i].at = at \/ (i \in Present /\ rows'[i] = rows[i])
      BY <1>b DEF Inserted
    <2> QED BY <2>1, <2>2, <1>a, <1>b DEF StampsGiven, Present
  <1>c. ASSUME stamp' = stamp, DOMAIN rows' \subseteq Present, \A i \in DOMAIN rows' : rows'[i].at = rows[i].at
        PROVE  StampsGiven'
    BY <1>a, <1>c DEF StampsGiven, Present
  <1>1. CASE OpenListing \/ ListPage \/ SessionExistsRelative \/ TurnBack
    <2>1. stamp' = stamp /\ rows' = rows
      BY <1>1 DEF OpenListing, ListPage, SessionExistsRelative, TurnBack
    <2> QED BY <2>1, <1>a, <1>c
  <1>2. ASSUME NEW parameter, ChangeFilter(parameter) PROVE StampsGiven'
    <2>1. stamp' = stamp /\ (rows' = rows \/ rows' = [i \in Present |-> [rows[i] EXCEPT !.shown = TRUE]])
      BY <1>2 DEF ChangeFilter
    <2> QED BY <2>1, <1>a, <1>c DEF RowValue
  <1>3. CASE InsertRow
    <2>1. Stamped => stamp' \in Nat /\ stamp' <= MaxStamp
      BY <1>a DEF Stamped
    <2>2. CASE Key = "processed" /\ rows' = Inserted(0, TRUE) /\ UNCHANGED stamp
      <3>1. PICK at \in Nat : at = 0
        OBVIOUS
      <3>2. at <= MaxStamp /\ rows' = Inserted(at, TRUE) /\ stamp' \in Nat /\ stamp' <= MaxStamp
        BY <2>2, <3>1, <1>a
      <3> QED BY <3>2, <1>b
    <2>3. CASE Key \in {"processed", "version"} /\ Stamped /\ rows' = Inserted(stamp', TRUE)
      BY <2>3, <2>1, <1>a, <1>b
    <2>4. CASE /\ Key = "created" /\ (Stamped \/ UNCHANGED stamp)
               /\ \E shown \in {TRUE, "enter" \notin listing[1].changes} : rows' = Inserted(stamp', shown)
      BY <2>4, <2>1, <1>a, <1>b
    <2>5. CASE /\ Key = "path" /\ UNCHANGED stamp
               /\ \E p \in 1..MaxStamp : /\ \A i \in Present : rows[i].at # p
                                         /\ rows' = Inserted(p, TRUE)
      <3>1. PICK p \in 1..MaxStamp : rows' = Inserted(p, TRUE)
        BY <2>5
      <3>2. p \in Nat /\ p <= MaxStamp /\ stamp' \in Nat /\ stamp' <= MaxStamp
        BY <2>5, <1>a
      <3> QED BY <3>1, <3>2, <1>b
    <2> QED BY <1>3, <2>2, <2>3, <2>4, <2>5 DEF InsertRow
  <1>4. CASE MarkEventProcessed
    <2>1. PICK i \in Present : rows' = [rows EXCEPT ![i].at = stamp']
      BY <1>4 DEF MarkEventProcessed
    <2>2. stamp' \in Nat /\ stamp' <= MaxStamp
      BY <1>4, <1>a DEF MarkEventProcessed, Stamped
    <2>3. DOMAIN rows' = Present /\ \A j \in Present : rows'[j].at \in {rows[j].at, stamp'}
      BY <2>1, <1>a DEF RowValue
    <2> QED BY <2>2, <2>3, <1>a DEF StampsGiven, Present
  <1>5. ASSUME NEW i \in Present, RowLeaves(i) \/ RowEnters(i) \/ DeleteRow(i) PROVE StampsGiven'
    <2>1. stamp' = stamp
      BY <1>5 DEF RowLeaves, RowEnters, DeleteRow, Moved
    <2>2. \/ \E shown \in BOOLEAN : rows' = [rows EXCEPT ![i].shown = shown]
          \/ rows' = [j \in Present \ {i} |-> rows[j]]
      BY <1>5 DEF RowLeaves, RowEnters, DeleteRow
    <2> QED BY <2>1, <2>2, <1>a, <1>c DEF RowValue
  <1>6. ASSUME NEW i \in Present, RenameRow(i) PROVE StampsGiven'
    <2>1. PICK p \in 1..MaxStamp : rows' = [rows EXCEPT ![i].at = p] /\ stamp' = stamp
      BY <1>6 DEF RenameRow, Moved
    <2>2. DOMAIN rows' = Present /\ \A j \in Present : rows'[j].at \in {rows[j].at, p}
      BY <2>1, <1>a DEF RowValue
    <2> QED BY <2>1, <2>2, <1>a DEF StampsGiven, Present
  <1>7. CASE UNCHANGED listVars
    BY <1>7, <1>a, <1>c DEF listVars
  <1> QED BY <1>1, <1>2, <1>3, <1>4, <1>5, <1>6, <1>7 DEF ListingNext

\* The type invariant of the lists of the API.
LEMMA ListingTypes ==
    ASSUME Listings \subseteq ApiLists, MaxStamp # 0
    PROVE  ListingSpec => []ListingTypeOK
  <1>1. ListingInit => StampsGiven
    BY ListingAssumption DEF ListingInit, StampsGiven, Present
  <1>2. ListInv /\ StampsGiven => ListingTypeOK
    <2> SUFFICES ASSUME ListInv, StampsGiven PROVE ListingTypeOK
      OBVIOUS
    <2>1. \A i \in Present : rows[i] \in RowValue
      BY DEF ListInv, ListTyped
    <2> QED BY <2>1, ListingAssumption
            DEF ListInv, ListTyped, WalkSawRows, StampsGiven, ListingTypeOK, RowValue, PageValue, PagePcs
  <1>3. ListInv /\ [ListingNext]_listVars => ListInv'
    BY ApiListsArePaged, ListStep
  <1> QED BY <1>1, <1>2, <1>3, ListInitInv, StampsGivenStep, PTL DEF ListingSpec

-----------------------------------------------------------------------------
\* no two calls hold a row against each other
NoConflict ==
    \A c \in CatalogClients, d \in CatalogClients : \A h \in call[c].held : \A i \in call[d].held :
        c # d /\ h[1] = i[1] => h[2] = "share" /\ i[2] = "share"

\* what call c holds after a step that locks at most one more row
LocksKept(c) == call'[c].held \subseteq call[c].held
LocksTaken(c) ==
    \E row, mode : Lockable(c, row, mode) /\ call'[c].held = call[c].held \cup {<<row, mode>>}

\* A call that locks only what no other call holds against it, or gives up
\* locks, keeps the others' rows apart.
LEMMA ConflictFree ==
    ASSUME NoConflict, NEW c \in CatalogClients, \A d \in CatalogClients \ {c} : call'[d] = call[d],
           LocksKept(c) \/ LocksTaken(c)
    PROVE  NoConflict'
  <1>1. CASE LocksKept(c)
    <2>1. \A d \in CatalogClients : call'[d].held \subseteq call[d].held
      BY <1>1 DEF LocksKept
    <2> QED BY <2>1 DEF NoConflict
  <1>2. CASE LocksTaken(c)
    <2>1. PICK row, mode : Lockable(c, row, mode) /\ call'[c].held = call[c].held \cup {<<row, mode>>}
      BY <1>2 DEF LocksTaken
    <2>2. \A d \in CatalogClients \ {c} : \A i \in call[d].held :
            i[1] = row => mode = "share" /\ i[2] = "share"
      BY <2>1 DEF Lockable
    <2>3. ASSUME NEW x \in CatalogClients, NEW y \in CatalogClients, NEW h \in call'[x].held,
                 NEW i \in call'[y].held, x # y, h[1] = i[1]
          PROVE  h[2] = "share" /\ i[2] = "share"
      <3>1. \A z \in CatalogClients : z # c => call'[z].held = call[z].held
        OBVIOUS
      <3>2. CASE h \in call[x].held /\ i \in call[y].held
        BY <2>3, <3>2 DEF NoConflict
      <3>3. CASE h \notin call[x].held
        <4>1. x = c /\ h = <<row, mode>> /\ y # c /\ i \in call[y].held
          BY <2>1, <2>3, <3>1, <3>3
        <4> QED BY <2>2, <2>3, <4>1
      <3>4. CASE i \notin call[y].held
        <4>1. y = c /\ i = <<row, mode>> /\ x # c /\ h \in call[x].held
          BY <2>1, <2>3, <3>1, <3>4
        <4> QED BY <2>2, <2>3, <4>1
      <3> QED BY <3>2, <3>3, <3>4
    <2> QED BY <2>3 DEF NoConflict
  <1> QED BY <1>1, <1>2

\* Every lock of the catalog is taken through Lockable.
LEMMA NoConflictStep == CatTyped /\ NoConflict /\ [CatalogNext]_catalogVars => NoConflict'
  <1> SUFFICES ASSUME CatTyped, NoConflict, [CatalogNext]_catalogVars PROVE NoConflict'
    OBVIOUS
  <1>a. DOMAIN call = CatalogClients /\ \A c \in CatalogClients : call[c] \in CallType
    BY DEF CatTyped
  <1>b. ASSUME NEW c \in CatalogClients, NEW k, call' = [call EXCEPT ![c] = k], k.held \subseteq call[c].held
        PROVE  NoConflict'
    BY <1>a, <1>b, ConflictFree DEF LocksKept
  <1>c. ASSUME NEW c \in CatalogClients, NEW row, NEW mode, NEW pc, Locks(c, row, mode, pc) PROVE NoConflict'
    <2>1. call'[c].held = call[c].held \cup {<<row, mode>>} /\ \A d \in CatalogClients \ {c} : call'[d] = call[d]
      BY <1>a, <1>c DEF Locks, CallType
    <2> QED BY <1>c, <2>1, ConflictFree DEF Locks, LocksTaken
  <1>d. \A op, pc, a, geo, roster, seen : Begun(op, pc, a, geo, roster, seen).held = {}
    BY DEF Begun
  <1>e. ASSUME NEW c \in CatalogClients, Ends(c) PROVE NoConflict'
    BY <1>b, <1>d, <1>e DEF Ends, NoCall
  <1>f. ASSUME NEW c \in CatalogClients, NEW op, NEW pc, NEW a, NEW geo, NEW roster, NEW seen,
               call' = [call EXCEPT ![c] = Begun(op, pc, a, geo, roster, seen)]
        PROVE  NoConflict'
    BY <1>b, <1>d, <1>f
  <1>g. ASSUME UNCHANGED call PROVE NoConflict'
    BY <1>g DEF NoConflict
  <1>1. ASSUME NEW c \in CatalogClients, NEW a, NEW geo, NEW roster, NEW v,
               CreateAgent(c, a, geo, roster) \/ UpdateAgent(c, a, geo, roster) \/ ArchiveAgent(c, a)
                 \/ ReadAgent(c, a, v) \/ ReadEnvironmentForUpdate(c) \/ DeleteStatement(c)
        PROVE  NoConflict'
    BY <1>1, <1>f DEF CreateAgent, UpdateAgent, ArchiveAgent, ReadAgent, ReadEnvironmentForUpdate,
                      DeleteStatement, Begins
  <1>2. ASSUME NEW c \in CatalogClients,
               LockLatestAgent(c) \/ LockActiveAgentVersion(c) \/ LockActiveSessionRoster(c)
                 \/ LockActiveEnvironment(c)
        PROVE  NoConflict'
    BY <1>2, <1>c DEF LockLatestAgent, LockActiveAgentVersion, LockActiveSessionRoster, LockActiveEnvironment
  <1>3. ASSUME NEW c \in CatalogClients,
               UpdateVersion(c) \/ PutVersion(c) \/ ArchiveVersions(c) \/ UpdateEnvironment(c)
                 \/ DeleteEnvironment(c) \/ InsertSession(c) \/ Rollback(c)
        PROVE  NoConflict'
    BY <1>3, <1>e DEF UpdateVersion, PutVersion, ArchiveVersions, UpdateEnvironment, DeleteEnvironment,
                      InsertSession, Rollback
  <1>4. ASSUME NEW c \in CatalogClients, CreateEnvironment(c) \/ ArchiveEnvironment(c) PROVE NoConflict'
    BY <1>4, <1>g DEF CreateEnvironment, ArchiveEnvironment
  <1>5. ASSUME NEW c \in CatalogClients,
               ReadOwner(c) \/ ResolveMultiagent(c) \/ SelectLatestAgent(c) \/ ArchiveStatement(c)
                 \/ ReadEnvironment(c) \/ ResolveSessionRoster(c)
        PROVE  NoConflict'
    <2>1. /\ call'[c].held = call[c].held
          /\ \A d \in CatalogClients \ {c} : call'[d] = call[d]
      BY <1>5, <1>a DEF ReadOwner, ResolveMultiagent, SelectLatestAgent, ArchiveStatement,
                        ReadEnvironment, ResolveSessionRoster, Proceeds, CallType
    <2> QED BY <2>1, ConflictFree DEF LocksKept
  <1>6. CASE UNCHANGED catalogVars
    BY <1>6, <1>g DEF catalogVars
  <1> QED BY <1>1, <1>2, <1>3, <1>4, <1>5, <1>6 DEF CatalogNext

\* The type invariant of the catalog, with the locks no two calls hold at once.
LEMMA CatalogTypes == CatalogSpec => []CatalogTypeOK
  <1>1. CatalogInit => NoConflict
    BY DEF CatalogInit, NoConflict, NoCall, Begun
  <1>2. CatalogInv /\ NoConflict => CatalogTypeOK
    <2> SUFFICES ASSUME CatalogInv, NoConflict PROVE CatalogTypeOK
      OBVIOUS
    <2>1. \A a \in AgentIds : \A v \in 1..LatestVersion(a) : agents[a][v] \in VersionType
      BY DEF CatalogInv, CatTyped, LatestVersion
    <2>2. \A c \in CatalogClients, d \in CatalogClients : \A h \in call[c].held :
            c # d /\ h[2] = "update" => \A i \in call[d].held : i[1] # h[1]
      BY DEF NoConflict
    <2> QED BY <2>1, <2>2 DEF CatalogTypeOK, CatalogInv, CatTyped, RostersExist, VersionType, EnvironmentType
  <1>3. CatalogInv => CatTyped
    BY DEF CatalogInv
  <1> QED BY <1>1, <1>2, <1>3, NoConflictStep, CatalogInvariant, PTL DEF CatalogSpec

-----------------------------------------------------------------------------
\* The control plane as a whole: every component keeps its property beside the
\* others.
THEOREM ControlPlaneHolds ==
    ASSUME Listings \subseteq ApiLists, {MaxWorkTime, MaxStamp} \subseteq Nat \ {0}
    PROVE  ControlSpec => /\ []ControlTypeOK
                          /\ [](WorkIsExact /\ StreamIsExact /\ EveryRowListed /\ BudgetIsExact
                                 /\ ClientRotationWins /\ ReadsAreRechecked)
                          /\ ScheduleIsExact
  <1>1. ControlInit => WorkInit /\ DeploymentInit /\ LiveInit /\ ListingInit /\ BudgetInit /\ VaultInit
                         /\ CatalogInit
    BY DEF ControlInit
  <1>2. [ControlNext]_ControlVars =>
          /\ [WorkNext]_workVars /\ [DeploymentNext]_depVars /\ [LiveNext]_liveVars
          /\ [ListingNext]_listVars /\ [BudgetNext]_budgetVars /\ [VaultNext]_vaultVars
          /\ [CatalogNext]_catalogVars
    BY DEF ControlNext, ControlVars, OthersRest
  <1>3. ControlSpec => /\ WorkSpec /\ DeploymentSpec /\ LiveSpec /\ ListingSpec /\ BudgetSpec /\ VaultSpec
                       /\ CatalogSpec
    BY <1>1, <1>2, PTL DEF ControlSpec, WorkSpec, DeploymentSpec, LiveSpec, ListingSpec, BudgetSpec,
                           VaultSpec, CatalogSpec
  <1>4. WorkTypeOK /\ DeploymentTypeOK /\ LiveTypeOK /\ ListingTypeOK /\ BudgetTypeOK /\ VaultTypeOK
          /\ CatalogTypeOK => ControlTypeOK
    BY DEF ControlTypeOK
  <1>5. WorkSpec => []WorkTypeOK
    BY WorkTypes
  <1>6. ListingSpec => []ListingTypeOK /\ []EveryRowListed
    <2>1. ListingSpec => []ListingTypeOK
      BY ListingTypes
    <2>2. ListingSpec => []EveryRowListed
      BY RowsListed
    <2> QED BY <2>1, <2>2
  <1> QED BY <1>3, <1>4, <1>5, <1>6, DeploymentTypes, BudgetTypes, CatalogTypes, RotationWins, WorkExact,
             BudgetExact, ScheduleExact, StreamExact, CatalogRechecked, PTL

==============================================================================
