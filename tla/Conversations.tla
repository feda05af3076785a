----------------------------- MODULE Conversations -----------------------------
(***************************************************************************)
(* What the members see of a conversation and of each other: Presence,     *)
(* MessageHistory, ConversationList and GatewayRooms side by side, whose   *)
(* states do not meet, with their properties.                              *)
(***************************************************************************)
EXTENDS Presence

CONSTANTS
    LastMessage, Text, Call, Limit, LastTime,       \* of MessageHistory
    Entry, PageLimit, LastUpdate,                   \* of ConversationList
    Member, Client, ClientOf, Request, Publication  \* of GatewayRooms

ASSUME HistoryAssumption == LastMessage \in Nat /\ Limit \in Nat \ {0}

ASSUME ListAssumption ==
    /\ IsFiniteSet(Entry)
    /\ PageLimit \in Nat \ {0}
    /\ LastUpdate \in Nat

VARIABLES
    row, now, call, screen, walk, rewritten, astray,
    updatedAt, listed, reader, untouched, torn, slipped,
    member, line, room, joining, message, told, entitled, steady

History == INSTANCE MessageHistory WITH raced <- rewritten

List == INSTANCE ConversationList WITH Conversation <- Entry

Rooms == INSTANCE GatewayRooms
    WITH User <- Member, Socket <- Client, UserOf <- ClientOf,
         Message <- Publication, request <- joining, link <- line

-----------------------------------------------------------------------------
(* The properties of the parts, at their definitions; those of Presence    *)
(* keep their names.  Paging by cursor misses no message.                  *)
WalkIsComplete == History!WalkIsComplete

(* Only a call that read a message before it was deleted changes it after. *)
DeletionStands == History!DeletionStands

(* Sockets, pages and previews show what is stored of a message. *)
ViewsAreCurrent == History!ViewsAreCurrent

(* Paging by offset misses no conversation that stayed in its place. *)
UntouchedAreSeen == List!UntouchedAreSeen

(* A publication reaches all members, and none but members of some time. *)
PublicationsReachMembers == Rooms!PublicationsReachMembers
=============================================================================
