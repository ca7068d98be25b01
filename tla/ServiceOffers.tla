---------------------------- MODULE ServiceOffers ----------------------------
(***************************************************************************)
(* The command of a connector that makes the service offers of the server  *)
(* those of its cloud: namespaces and offers are looked for, then added or *)
(* updated, and what is left of the connector's is deleted.  Executions    *)
(* may overlap; each call to the server is a step of its own.              *)
(***************************************************************************)
EXTENDS Integers, Sequences, FiniteSets, FiniteSetsExt

CONSTANTS
  Updaters,         \* executions of the command
  Catalogues,       \* what the cloud may offer: sequences of offers
  StoredOffers,     \* what the server may hold at first: sets of offers, with their ids
  MaxOfferFaults    \* bound: calls that fail

ASSUME OfferAssumption == MaxOfferFaults \in Nat

VARIABLES
  offers,   \* the server's: offers of this connector and of others, and namespaces
  oexec,    \* the executions
  ofaults

offerVars == <<offers, oexec, ofaults>>

ResourcePrice == <<"resource", "price">>
Ours == {o \in offers.stored : o.connector = "ours"}
IdsOf(S) == {o.id : o \in S}

(* Offers are told apart by their ids, and none is of these executions yet. *)
ASSUME StoredOffersAssumption ==
  /\ \A S \in StoredOffers :
       /\ IsFiniteSet(IdsOf(S)) /\ IdsOf(S) \subseteq Nat
       /\ \A o, p \in S : o.id = p.id => o = p
       /\ \A o \in S : o.price \notin Updaters
  /\ \A c \in Catalogues : c \in Seq({c[i] : i \in 1 .. Len(c)})

FreshId == Max(IdsOf(offers.stored) \cup {offers.last}) + 1

OfferIdle ==
  /\ offers = [stored |-> {}, last |-> 0, spaces |-> {}]
  /\ oexec = [u \in Updaters |-> [pc |-> "off"]]
  /\ ofaults = 0
OfferInit ==
  /\ \E stored \in StoredOffers, spaces \in {{}, {"resource", "price"}} :
       offers = [stored |-> stored, last |-> 0, spaces |-> spaces]
  /\ oexec \in [Updaters -> [pc : {"generate"}, dry : BOOLEAN, catalogue : Catalogues,
                             todo : {<<>>}, found : {{}}, ids : {{}}, alone : {TRUE}]]
  /\ ofaults = 0

OfferAt(u, pc) == oexec[u].pc = pc
OfferTo(u, pc) == oexec' = [oexec EXCEPT ![u].pc = pc]
Doomed(u) == OfferTo(u, "raised")
OfferFault == ofaults < MaxOfferFaults /\ ofaults' = ofaults + 1
NoFault == UNCHANGED ofaults

(* What u writes while another execution is under way, or is done, is seen by that one. *)
Disturbing(u, exec) ==
  [v \in Updaters |-> IF v = u THEN exec
                      ELSE [oexec[v] EXCEPT !.alone = @ /\ oexec[v].pc = "generate"]]

(* The connector lists its sizes, systems, disks and prices; nothing to offer is an error. *)
OfferGenerate(u) ==
  /\ OfferAt(u, "generate")
  /\ IF oexec[u].catalogue = <<>> THEN Doomed(u)
     ELSE oexec' = [oexec EXCEPT ![u].pc = IF oexec[u].dry THEN "done" ELSE "space",
                                 ![u].todo = ResourcePrice]
  /\ UNCHANGED offers /\ NoFault

OfferSearchSpace(u) ==
  /\ OfferAt(u, "space")
  /\ oexec' = [oexec EXCEPT ![u] =
       CASE @.todo = <<>> -> [@ EXCEPT !.pc = "search", !.todo = oexec[u].catalogue]
         [] @.todo # <<>> /\ Head(@.todo) \in offers.spaces -> [@ EXCEPT !.todo = Tail(@)]
         [] OTHER -> [@ EXCEPT !.pc = "addspace"]]
  /\ UNCHANGED offers /\ NoFault

(* The id of a namespace is its prefix: what another execution added meanwhile is an error. *)
OfferAddSpace(u) ==
  /\ OfferAt(u, "addspace") /\ NoFault
  /\ LET space == Head(oexec[u].todo) IN
       IF space \in offers.spaces THEN Doomed(u) /\ UNCHANGED offers
       ELSE /\ offers' = [offers EXCEPT !.spaces = @ \cup {space}]
            /\ oexec' = [oexec EXCEPT ![u].pc = "space", ![u].todo = Tail(@)]

OfferSearch(u) ==
  /\ OfferAt(u, "search")
  /\ oexec' = [oexec EXCEPT ![u] =
       IF @.todo = <<>> THEN [@ EXCEPT !.pc = "list"]
       ELSE [@ EXCEPT !.pc = "write",
                      !.found = {o.id : o \in {p \in Ours : p.key = Head(oexec[u].todo)}}]]
  /\ UNCHANGED offers /\ NoFault

Offered(u, id) == [id |-> id, key |-> Head(oexec[u].todo), price |-> u, connector |-> "ours"]

(* Mutant: what was written is not remembered. *)
MutantWrote(u, ids) ==
  oexec' = Disturbing(u, [oexec[u] EXCEPT !.pc = "search", !.todo = Tail(@)])

Wrote(u, ids) ==
  oexec' = Disturbing(u, [oexec[u] EXCEPT !.pc = "search", !.todo = Tail(@), !.ids = @ \cup ids])

OfferAdd(u) ==
  /\ OfferAt(u, "write") /\ oexec[u].found = {} /\ NoFault
  /\ offers' = [offers EXCEPT !.stored = @ \cup {Offered(u, FreshId)}, !.last = FreshId]
  /\ Wrote(u, {FreshId})

OfferEdit(u) ==
  /\ OfferAt(u, "write") /\ NoFault
  /\ \E id \in oexec[u].found :
       /\ oexec[u].found = {id}
       /\ IF id \in IdsOf(offers.stored)
          THEN /\ offers' = [offers EXCEPT !.stored = {o \in @ : o.id # id} \cup {Offered(u, id)}]
               /\ Wrote(u, {id})
          ELSE Doomed(u) /\ UNCHANGED offers

(* Duplicates are only warned about; all of them stay as they are. *)
OfferKeep(u) ==
  /\ OfferAt(u, "write") /\ Cardinality(oexec[u].found) > 1
  /\ oexec' = [oexec EXCEPT ![u].pc = "search", ![u].todo = Tail(@), ![u].ids = @ \cup oexec[u].found]
  /\ UNCHANGED offers /\ NoFault

OfferList(u) ==
  /\ OfferAt(u, "list")
  /\ oexec' = [oexec EXCEPT ![u].pc = "delete", ![u].found = IdsOf(Ours) \ oexec[u].ids]
  /\ UNCHANGED offers /\ NoFault

OfferDelete(u) ==
  /\ OfferAt(u, "delete") /\ NoFault
  /\ \/ oexec[u].found = {} /\ OfferTo(u, "done") /\ UNCHANGED offers
     \/ \E id \in oexec[u].found :
          IF id \in IdsOf(offers.stored)
          THEN /\ offers' = [offers EXCEPT !.stored = {o \in @ : o.id # id}]
               /\ oexec' = Disturbing(u, [oexec[u] EXCEPT !.found = @ \ {id}])
          ELSE Doomed(u) /\ UNCHANGED offers

(* A call that fails, or the alarm of the command, ends it where it is. *)
OfferFails(u) ==
  /\ oexec[u].pc \notin {"off", "done", "raised"} /\ OfferFault
  /\ Doomed(u) /\ UNCHANGED offers

OfferProgress(u) ==
  \/ OfferGenerate(u) \/ OfferSearchSpace(u) \/ OfferAddSpace(u) \/ OfferSearch(u)
  \/ OfferAdd(u) \/ OfferEdit(u) \/ OfferKeep(u) \/ OfferList(u) \/ OfferDelete(u)
OfferNext == \E u \in Updaters : OfferProgress(u) \/ OfferFails(u)

-----------------------------------------------------------------------------
OfferTypeOK ==
  /\ offers.last \in Nat /\ offers.spaces \subseteq {"resource", "price"}
  /\ \A o, p \in offers.stored : o.id = p.id => o = p
  /\ \A u \in Updaters : oexec[u].pc \in {"off", "generate", "space", "addspace", "search", "write",
                                          "list", "delete", "done", "raised"}
  /\ ofaults \in 0 .. MaxOfferFaults

(* After an execution that no other one crossed: what the cloud offers is on the server, at its *)
(* price unless the server held it twice before, and nothing else of this connector is.  What  *)
(* other connectors offer is not updated, and a dry run writes nothing.                        *)
OffersInSync ==
  /\ \A u \in Updaters :
       OfferAt(u, "done") /\ ~oexec[u].dry /\ oexec[u].alone =>
         /\ {o.key : o \in Ours} = {oexec[u].catalogue[i] : i \in 1 .. Len(oexec[u].catalogue)}
         /\ \A o \in Ours : o.price = u \/ \E p \in Ours : p.id # o.id /\ p.key = o.key
  /\ \A o \in Ours : o.price \in Updaters => ~oexec[o.price].dry
  /\ \A o \in offers.stored : o.connector # "ours" => o.price \notin Updaters

OfferOver == \A u \in Updaters : oexec[u].pc \in {"off", "done", "raised"}
=============================================================================
