-------------------------------- MODULE Vault --------------------------------
(***************************************************************************)
(* A Vault's OAuth credentials: resolution and refresh for the MCP calls   *)
(* of a Session and for mcp_oauth_validate, while clients rotate, archive  *)
(* and delete them.  The exchange with the token endpoint happens outside  *)
(* the transaction that stores its result.  A token is <<grant, n>>: the   *)
(* grant a client installed, and the refreshes made from it.               *)
(* Sources: internal/app/vault_service.go and vault_oauth.go,              *)
(* internal/pg/vault.go, internal/oauthclient/client.go,                   *)
(* internal/httpapi/vaults.go.                                             *)
(***************************************************************************)
EXTENDS Naturals, FiniteSets

CONSTANTS
    Creds,        \* credential ids
    Resolvers,    \* concurrent MCP calls and validations
    Rotates,      \* whether the authorization server rotates refresh tokens
    MaxGrants,    \* bound: grants that clients install
    MaxRefreshes  \* bound: refreshes of one grant

ASSUME VaultAssumption ==
    Rotates \in BOOLEAN /\ {MaxGrants, MaxRefreshes} \subseteq Nat

VARIABLES
    vaultArchived,  \* vaults.archived_at
    cred,           \* vault_credentials: state, access and refresh token, expired
    grants,         \* grants installed so far
    installed,      \* per credential: the grants its client installed last
    endpoint,       \* per grant: refreshes the authorization server has made
    resolver        \* per resolver: pc, credential, the token it used, its answer

vaultVars == <<vaultArchived, cred, grants, installed, endpoint, resolver>>

NoToken == <<0, 0>>
Erased(state) == [state |-> state, access |-> NoToken, refresh |-> NoToken, expired |-> FALSE]
IdleResolver == [pc |-> "idle", cred |-> NoToken, used |-> NoToken, got |-> NoToken]

VaultInit ==
    /\ vaultArchived = FALSE /\ grants = 0
    /\ cred = [c \in Creds |-> Erased("absent")]
    /\ installed = [c \in Creds |-> [access |-> 0, refresh |-> 0]] /\ endpoint = [g \in 1..MaxGrants |-> 0]
    /\ resolver = [r \in Resolvers |-> IdleResolver]

Active(c) == cred[c].state = "active"

-----------------------------------------------------------------------------
(* Clients                                                                 *)

\* a grant a client brings: tokens the server issued to it
NewGrant == grants < MaxGrants /\ grants' = grants + 1

\* All credentials here are for one MCP server: a second active one is refused.
CreateCredential(c) ==
    /\ ~vaultArchived /\ cred[c].state = "absent" /\ \A d \in Creds : ~Active(d)
    /\ NewGrant /\ installed' = [installed EXCEPT ![c] = [access |-> grants', refresh |-> grants']]
    /\ cred' = [cred EXCEPT ![c] = [state |-> "active", access |-> <<grants', 0>>,
                                    refresh |-> <<grants', 0>>, expired |-> FALSE]]
    /\ UNCHANGED <<vaultArchived, endpoint, resolver>>

\* the access token is replaced, with it the refresh token, or that is removed;
\* a refresh token is not added by an update
UpdateCredential(c, refresh) ==
    /\ Active(c) /\ NewGrant
    /\ refresh # "kept" => cred[c].refresh # NoToken
    /\ installed' = [installed EXCEPT ![c].access = grants',
         ![c].refresh = CASE refresh = "kept" -> @ [] refresh = "new" -> grants' [] OTHER -> 0]
    /\ cred' = [cred EXCEPT ![c].access = <<grants', 0>>, ![c].expired = FALSE,
         ![c].refresh = CASE refresh = "kept" -> @ [] refresh = "new" -> <<grants', 0>>
                          [] OTHER -> NoToken]
    /\ UNCHANGED <<vaultArchived, endpoint, resolver>>

\* archiving purges the secret in the same statement
ArchiveCredential(c) ==
    /\ Active(c) /\ cred' = [cred EXCEPT ![c] = Erased("archived")]
    /\ UNCHANGED <<vaultArchived, grants, installed, endpoint, resolver>>

DeleteCredential(c) ==
    /\ cred[c].state \in {"active", "archived"}
    /\ cred' = [cred EXCEPT ![c] = Erased("deleted")]
    /\ UNCHANGED <<vaultArchived, grants, installed, endpoint, resolver>>

ArchiveVault ==
    /\ ~vaultArchived /\ vaultArchived' = TRUE
    /\ cred' = [c \in Creds |-> IF Active(c) THEN Erased("archived") ELSE cred[c]]
    /\ UNCHANGED <<grants, installed, endpoint, resolver>>

\* expires_at passes
Expire(c) ==
    /\ Active(c) /\ ~cred[c].expired /\ cred' = [cred EXCEPT ![c].expired = TRUE]
    /\ UNCHANGED <<vaultArchived, grants, installed, endpoint, resolver>>

-----------------------------------------------------------------------------
(* ResolveMCPBearer, and ValidateMCPOAuthCredential after a failed probe   *)

Answer(r, pc, token) == resolver' = [resolver EXCEPT ![r].pc = pc, ![r].got = token]

\* the credential is read and decrypted; a rejected token is refreshed even
\* before it expires (validate)
LoadOAuthCredential(r, c, rejected) ==
    /\ resolver[r].pc = "idle" /\ Active(c)
    /\ IF ~cred[c].expired /\ ~rejected
         THEN resolver' = [resolver EXCEPT ![r].pc = "done", ![r].cred = <<c>>,
                                           ![r].got = cred[c].access]
         ELSE /\ cred[c].refresh # NoToken
              /\ resolver' = [resolver EXCEPT ![r].pc = "exchange", ![r].cred = <<c>>,
                                              ![r].used = cred[c].refresh]
    /\ UNCHANGED <<vaultArchived, cred, grants, installed, endpoint>>

\* the authorization server accepts the last refresh token of a grant
Accepted(token) == token[2] = IF Rotates THEN endpoint[token[1]] ELSE 0

\* the exchange: a new access token, with rotation a new refresh token; refused
\* or unreachable, the resolver fails
Refresh(r) ==
    LET used == resolver[r].used  g == used[1]
    IN  /\ resolver[r].pc = "exchange" /\ endpoint[g] < MaxRefreshes
        /\ \/ /\ Accepted(used) /\ endpoint' = [endpoint EXCEPT ![g] = @ + 1]
              /\ Answer(r, "persist", <<g, endpoint[g] + 1>>)
           \/ Answer(r, "failed", NoToken) /\ UNCHANGED endpoint
        /\ UNCHANGED <<vaultArchived, cred, grants, installed>>

\* Mutant: the stored refresh token is not compared.
RefreshAlwaysApplies(r, c) == Active(c) /\ cred[c].refresh # NoToken

\* the test of persistOAuthRefresh, under the row lock
RefreshApplies(r, c) == Active(c) /\ cred[c].refresh = resolver[r].used

PersistOAuthRefresh(r) ==
    LET c == resolver[r].cred[1]  got == resolver[r].got
    IN  /\ resolver[r].pc = "persist"
        /\ IF RefreshApplies(r, c)
             THEN /\ cred' = [cred EXCEPT ![c].access = got, ![c].expired = FALSE,
                                          ![c].refresh = IF Rotates THEN got ELSE @]
                  /\ Answer(r, "done", got)
             ELSE Answer(r, "reload", NoToken) /\ UNCHANGED cred
        /\ UNCHANGED <<vaultArchived, grants, installed, endpoint>>

\* errRefreshCredentialChanged: the concurrent change is authoritative
ReloadCredential(r) ==
    LET c == resolver[r].cred[1]
    IN  /\ resolver[r].pc = "reload"
        /\ IF Active(c) /\ ~cred[c].expired THEN Answer(r, "done", cred[c].access)
           ELSE Answer(r, "failed", NoToken)
        /\ UNCHANGED <<vaultArchived, cred, grants, installed, endpoint>>

\* the process dies after the exchange
Abandon(r) ==
    /\ resolver[r].pc = "persist" /\ Answer(r, "failed", NoToken)
    /\ UNCHANGED <<vaultArchived, cred, grants, installed, endpoint>>

NextCall(r) ==
    /\ resolver[r].pc \in {"done", "failed"}
    /\ resolver' = [resolver EXCEPT ![r] = IdleResolver]
    /\ UNCHANGED <<vaultArchived, cred, grants, installed, endpoint>>

VaultNext ==
    \/ \E c \in Creds :
         \/ CreateCredential(c) \/ ArchiveCredential(c) \/ DeleteCredential(c) \/ Expire(c)
         \/ \E refresh \in {"kept", "new", "removed"} : UpdateCredential(c, refresh)
         \/ \E r \in Resolvers, rejected \in BOOLEAN : LoadOAuthCredential(r, c, rejected)
    \/ ArchiveVault
    \/ \E r \in Resolvers :
         \/ Refresh(r) \/ PersistOAuthRefresh(r) \/ ReloadCredential(r)
         \/ Abandon(r) \/ NextCall(r)

VaultSpec == VaultInit /\ [][VaultNext]_vaultVars

-----------------------------------------------------------------------------
(* Properties                                                              *)

\* One credential of a server is active at a time.
VaultTypeOK ==
    /\ Cardinality({c \in Creds : Active(c)}) <= 1
    /\ \A r \in Resolvers : resolver[r].pc \in
         {"idle", "exchange", "persist", "reload", "done", "failed"}

\* A refresh never undoes what a client did while the token endpoint was asked:
\* the refresh token of an active credential is of the grant its client installed
\* last, and stays removed; its access token is the client's or comes from
\* that grant; an archived or deleted credential holds no token.
ClientRotationWins ==
    \A c \in Creds :
        IF Active(c)
          THEN /\ cred[c].refresh[1] = installed[c].refresh
               /\ cred[c].access[1] \in {installed[c].access, installed[c].refresh}
          ELSE cred[c].access = NoToken /\ cred[c].refresh = NoToken
=============================================================================
