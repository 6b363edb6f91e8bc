----------------------------- MODULE TokenHistory -----------------------------
(***************************************************************************)
(* The token contract with a history of the rights that owners have        *)
(* granted by their messages, of who moved a token, and of the ids that    *)
(* were burned.                                                            *)
(***************************************************************************)
EXTENDS Token

VARIABLES grants,   \* <<owner, spender, id or None for all ids>> -> expiration
          mover,    \* the sender of the last message, if that moved a token, or None
          burned    \* the ids that have been burned

historyVars == <<vars, grants, mover, burned>>

HInit == Init /\ grants = EmptyMap /\ mover = None /\ burned = {}

Grant(owner, spender, what, expires) == grants' = Save(grants, <<owner, spender, what>>, expires)
TakeBack(owner, spender, what) == grants' = Delete(grants, <<owner, spender, what>>)

\* With a transfer of a token, to whomever, and with its burning, what was granted
\* for this token comes to its end.
EndWith(id) == grants' = [g \in {h \in DOMAIN grants : h[3] # id} |-> grants[g]]

GrantStep(s) ==
  \/ \E a \in Users, id \in Ids :
       \/ \E e \in Expiries : Approve(s, a, id, e) /\ Grant(s, a, id, e)
       \/ Revoke(s, a, id) /\ TakeBack(s, a, id)
  \/ \E a \in Users :
       \/ \E e \in Expiries : ApproveAll(s, a, e) /\ Grant(s, a, None, e)
       \/ RevokeAll(s, a) /\ TakeBack(s, a, None)

HNext ==
  /\ \/ \E s \in Users, id \in Ids : TransferMessage(s, id) /\ EndWith(id) /\ mover' = s
     \/ mover' = None /\ \E s \in Users, id \in Ids : Burn(s, id) /\ EndWith(id)
     \/ mover' = None /\ \E s \in Users : GrantStep(s)
     \/ /\ mover' = None
        /\ UNCHANGED grants
        /\ \/ \E s \in Users, id \in Ids : EditMessage(s, id)
           \/ \E s, a \in Users : UpdateOwner(s, a)
           \/ NextBlock
           \/ ListTransaction
  /\ burned' = burned \cup (DOMAIN tokens \ DOMAIN tokens')

HSpec == HInit /\ [][HNext]_historyVars

\* "owner" has granted "spender" token "id", or all tokens, and that still holds.
Granted(owner, spender, id) ==
  \E what \in {id, None} :
    /\ <<owner, spender, what>> \in DOMAIN grants
    /\ grants[<<owner, spender, what>>] \in Nat => height < grants[<<owner, spender, what>>]

\* Whoever moves a token is its owner, somebody the agreement on it names, or holds a
\* grant that this owner has made since the token came to them and that neither the
\* owner nor time has ended: nothing granted by an earlier owner, nothing revoked
\* or expired, and nothing left over from a burned token counts (has_transfer_rights).
MovesAreAuthorised ==
  [][\A id \in DOMAIN tokens :
       id \in DOMAIN tokens' /\ tokens'[id].owner # tokens[id].owner =>
         \/ mover' = tokens[id].owner
         \/ Granted(tokens[id].owner, mover', id)
         \/ HasAgreement(tokens[id], mover')]_historyVars

\* A grant of the owner's holds until it is taken back, expires or the token moves: no
\* grant to another spender, or of another kind, ends it.
GrantsAreHonoured ==
  \A id \in DOMAIN tokens, s \in Users :
    Granted(tokens[id].owner, s, id) => HasTransferRights(tokens[id], s)

\* ExecuteMsg::Burn is documented to keep the id of a burned token reserved.
BurnedIdsReserved == DOMAIN tokens \cap burned = {}
===============================================================================
