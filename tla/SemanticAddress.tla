--------------------------- MODULE SemanticAddress ---------------------------
(***************************************************************************)
(* packages/semantic-address: a memory is described by facets, coarsest    *)
(* first (domain, entity, relation, temporal, qualifier), each hashed into *)
(* its own segment of the address.  A segment is the bag of values it is   *)
(* the hash of, so two segments are equal exactly when the values are: the *)
(* values are sorted before they are hashed, but not made distinct.        *)
(***************************************************************************)
EXTENDS Integers, Sequences, SequencesExt, FiniteSetsExt

CONSTANTS Depth,     \* the number of facets, FACET_ORDER.length
          Texts,     \* what a value of a facet may be written as
          Canon,     \* Canon[t]: t in lower case, trimmed, its spaces collapsed
          Blank,     \* the canonical form of white space
          Patterns   \* the values parseDescription knows, in the order it tries them

ASSUME AddressAssumption == Depth \in Nat \ {0} /\ DOMAIN Canon = Texts

Facets == 1 .. Depth

\* A grammar gives each facet a set of values: none, one, or several.
Grammar == [Facets -> SUBSET Texts]

\* The canonical values of each facet, and how often; blank ones are filtered out.
Missing == <<>>
Normalize(g) ==
    [f \in Facets |-> [v \in {Canon[t] : t \in g[f]} \ {Blank} |->
                          Cardinality({t \in g[f] : Canon[t] = v})]]

\* The grammar read out of a text, given the values its keywords stand for: every
\* domain, of the other facets the first one tried.
ParseDescription(hits) ==
    [f \in Facets |->
        IF f = 1 \/ hits[f] = {} THEN hits[f]
        ELSE {Patterns[Min({i \in DOMAIN Patterns : Patterns[i] \in hits[f]})]}]

\* Mutated form of Derive: missing facets take no space.
DeriveCompact(g, content) ==
    LET n == Normalize(g)
        filled == SelectSeq(n, LAMBDA values : values # Missing)
    IN  [segments |-> filled \o [i \in 1 .. Depth - Len(filled) |-> Missing],
         depth |-> Len(filled), print |-> content]

\* A full address.  Missing facets leave their segment zero, and the depth is the
\* finest facet present, whatever is missing before it.
Derive(g, content) ==
    LET n == Normalize(g)
    IN  [segments |-> n, depth |-> Max({0} \cup {f \in Facets : n[f] # Missing}), print |-> content]

\* The prefix a query goes by: the facets before the first gap.
DerivePartial(g) ==
    LET n == Normalize(g)
    IN  SubSeq(n, 1, Max({d \in 0 .. Depth : \A f \in 1 .. d : n[f] # Missing}))

PrefixMatch(address, partial) == IsPrefix(partial, address.segments)

-----------------------------------------------------------------------------
(* The address book: a Map from addresses to entries, in insertion order. *)

BookPut(book, entry) ==
    LET at == {i \in DOMAIN book : book[i].address = entry.address}
    IN  IF at = {} THEN Append(book, entry) ELSE [book EXCEPT ![Max(at)] = entry]

\* The entries under an address, none or one.
BookGet(book, address) == {e \in Range(book) : e.address = address}

\* Entry after entry is put.
BookPutAll(book, entries) ==
    LET after[n \in 0 .. Len(entries)] ==
            IF n = 0 THEN book ELSE BookPut(after[n - 1], entries[n])
    IN  after[Len(entries)]

\* The entries that match, in the order of the book.
BookQuery(book, partial) ==
    LET results[n \in 0 .. Len(book)] ==
            IF n = 0 THEN <<>>
            ELSE IF PrefixMatch(book[n].address, partial) THEN Append(results[n - 1], book[n])
            ELSE results[n - 1]
    IN  results[Len(book)]
=============================================================================
