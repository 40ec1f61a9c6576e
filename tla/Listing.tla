------------------------------- MODULE Listing -------------------------------
(***************************************************************************)
(* A client that lists a bucket page by page while others add and remove   *)
(* objects: ListObjects and ListObjectsV2 from the query to the next       *)
(* marker.  How the walk of .metadata meets the files is the subject of    *)
(* Backend; here a walk finds every key left alone while it goes on, and   *)
(* perhaps some others.                                                    *)
(*                                                                         *)
(* A string is a sequence of numbers, in the order of the bytes.           *)
(***************************************************************************)
EXTENDS Integers, SequencesExt

CONSTANTS
    KeyNames,    \* object keys
    Volatile,    \* those that others write and delete while the pager runs
    PrefixNames, \* values of ?prefix
    Delimiters,  \* values of ?delimiter
    Starts,      \* values of ?marker, or ?start-after, in the first request
    MaxKeys,     \* values of ?max-keys
    PageLimit,   \* 1000 in the code
    None

\* A key is also the name of a file, so that there are only so many.
ASSUME StringsAssumption ==
    /\ KeyNames \cup PrefixNames \cup Delimiters \cup Starts \subseteq Seq(Nat)
    /\ IsFiniteSet(KeyNames)
    /\ Volatile \subseteq KeyNames
    /\ PageLimit \in Nat \ {0}
    /\ None \notin Seq(Nat)

VARIABLES
    stored,   \* the keys of the bucket
    query,    \* what the client asks for
    token,    \* the marker or continuation token of its next request
    phase,    \* "ask", "walk" or "done"
    found,    \* what ReadDir returned for the page under way
    page,     \* the page just answered
    \* history
    sure,     \* the part of found that was left alone since
    lasting,  \* keys that were there and left alone all the time
    made,     \* what that page was made of: the keys and the options
    listed,   \* keys listed so far
    folders   \* common prefixes listed so far

listVars == <<stored, query, token, phase, found, page, sure, lasting, made, listed, folders>>

Before(s, t) ==
    \/ IsStrictPrefix(s, t)
    \/ \E i \in DOMAIN s \cap DOMAIN t :
          s[i] < t[i] /\ \A j \in 1..(i - 1) : s[j] = t[j]

Ascending(s) == \A i, j \in DOMAIN s : i < j => Before(s[i], s[j])

----------------------------------------------------------------------------
(***************************************************************************)
(* The query.                                                              *)
(***************************************************************************)
Queries == [prefix: PrefixNames, delimiter: Delimiters, start: Starts, maxKeys: MaxKeys]

\* No number, a negative one or one above the limit is the limit.
parsedMaxKeys(value) == IF value \in 0..PageLimit THEN value ELSE PageLimit

\* The start is put before the token (a mutant).
listOptions_StartFirst(q, t) ==
    [prefix |-> q.prefix, delimiter |-> q.delimiter,
     marker |-> IF q.start = <<>> THEN t ELSE q.start, maxKeys |-> parsedMaxKeys(q.maxKeys)]

\* A token, if it is not empty, is put before the start.
listOptions(q, t) ==
    [prefix |-> q.prefix, delimiter |-> q.delimiter,
     marker |-> IF t = <<>> THEN q.start ELSE t, maxKeys |-> parsedMaxKeys(q.maxKeys)]

\* Zero is zero (a mutant).
Room_Zero(o) == o.maxKeys

\* Zero is the limit, too.
Room(o) == IF o.maxKeys <= 0 THEN PageLimit ELSE o.maxKeys

----------------------------------------------------------------------------
(***************************************************************************)
(* ListObjects: one pass over the keys in order.                           *)
(***************************************************************************)
\* What follows the prefix, up to and including the first delimiter.
CommonPrefix(key, o) ==
    LET width == Len(o.delimiter)
        at == {i \in Len(o.prefix)..(Len(key) - width) :
                  SubSeq(key, i + 1, i + width) = o.delimiter}
    IN IF o.delimiter = <<>> \/ at = {} THEN None ELSE SubSeq(key, 1, Min(at) + width)

NoPage == [objects |-> <<>>, prefixes |-> <<>>, truncated |-> FALSE, last |-> <<>>]

\* The key that did not fit is taken for the last one (a mutant).
Visit_LosesOne(o, result, key) ==
    LET group == CommonPrefix(key, o) IN
    CASE \/ result.truncated
         \/ o.marker # <<>> /\ ~Before(o.marker, key)
         \/ group \in Range(result.prefixes) -> result
      [] OTHER ->
         IF Len(result.objects) + Len(result.prefixes) = Room(o)
         THEN [result EXCEPT !.truncated = TRUE, !.last = key]
         ELSE IF group = None
         THEN [result EXCEPT !.objects = Append(@, key), !.last = key]
         ELSE [result EXCEPT !.prefixes = Append(@, group), !.last = key]

Visit(o, result, key) ==
    LET group == CommonPrefix(key, o)
        count == Len(result.objects) + Len(result.prefixes)
    IN CASE \/ result.truncated
            \/ o.marker # <<>> /\ ~Before(o.marker, key)
            \/ group \in Range(result.prefixes) -> result
         [] OTHER ->
            IF count = Room(o) THEN [result EXCEPT !.truncated = TRUE]
            ELSE IF group = None
            THEN [result EXCEPT !.objects = Append(@, key), !.last = key]
            ELSE [result EXCEPT !.prefixes = Append(@, group), !.last = key]

InOrder == CHOOSE s \in [1..Cardinality(KeyNames) -> KeyNames] : Ascending(s)

\* What the loop has made of the first keys.
PageUpTo(keys, o) ==
    LET result[n \in 0..Cardinality(KeyNames)] ==
            IF n = 0 THEN NoPage
            ELSE IF InOrder[n] \in keys /\ IsPrefix(o.prefix, InOrder[n])
            THEN Visit(o, result[n - 1], InOrder[n])
            ELSE result[n - 1]
    IN result

ListObjects(keys, o) == PageUpTo(keys, o)[Cardinality(KeyNames)]

\* The marker is the common prefix, where that comes last (a mutant).
NextMarker_Prefix(result) ==
    IF ~result.truncated THEN <<>>
    ELSE IF result.prefixes # <<>> /\ IsPrefix(Last(result.prefixes), result.last)
    THEN Last(result.prefixes) ELSE result.last

NextMarker(result) == IF result.truncated THEN result.last ELSE <<>>

----------------------------------------------------------------------------
(***************************************************************************)
(* The pager and the others.                                               *)
(***************************************************************************)
Init ==
    /\ stored \in SUBSET KeyNames
    /\ query \in Queries
    /\ token = <<>> /\ phase = "ask"
    /\ found = {} /\ page = NoPage
    /\ sure = {} /\ lasting = stored /\ made = None
    /\ listed = {} /\ folders = {}

\* An object is written.  Over an old one, this hides it from a walk for a moment.
Put(k) ==
    /\ stored' = stored \cup {k}
    /\ sure' = sure \ {k}
    /\ lasting' = IF phase = "walk" THEN lasting \ {k} ELSE lasting
    /\ UNCHANGED <<query, token, phase, found, page, made, listed, folders>>

Delete(k) ==
    /\ stored' = stored \ {k}
    /\ sure' = sure \ {k}
    /\ lasting' = lasting \ {k}
    /\ UNCHANGED <<query, token, phase, found, page, made, listed, folders>>

\* The request arrives and the directory is read.
Ask ==
    /\ phase = "ask" /\ phase' = "walk"
    /\ found' = stored /\ sure' = stored
    /\ page' = NoPage /\ made' = None
    /\ UNCHANGED <<stored, query, token, lasting, listed, folders>>

\* The documents are read, the page is made and sent; the client goes on
\* while pages are truncated.
Answer ==
    /\ phase = "walk"
    /\ \E keys \in SUBSET found :
           /\ sure \subseteq keys
           /\ made' = [keys |-> keys, options |-> listOptions(query, token)]
           /\ page' = ListObjects(keys, made'.options)
    /\ token' = NextMarker(page')
    /\ phase' = IF page'.truncated THEN "ask" ELSE "done"
    /\ found' = {} /\ sure' = {}
    /\ listed' = listed \cup Range(page'.objects)
    /\ folders' = folders \cup Range(page'.prefixes)
    /\ UNCHANGED <<stored, query, lasting>>

Next == Ask \/ Answer \/ \E k \in Volatile : Put(k) \/ Delete(k)

\* A handler runs until it has answered, and this client asks on.
Spec == Init /\ [][Next]_listVars /\ WF_listVars(Ask \/ Answer)

----------------------------------------------------------------------------
(***************************************************************************)
(* Properties.                                                             *)
(***************************************************************************)
\* The keys a query is about, whatever page they are on.
Meant(o) == {k \in KeyNames : IsPrefix(o.prefix, k) /\ (o.marker = <<>> \/ Before(o.marker, k))}

\* The strings under which k may be shown: after the prefix they end in the
\* delimiter.
Folders(k, o) ==
    {c \in {SubSeq(k, 1, n) : n \in 0..Len(k)} :
        /\ o.delimiter # <<>>
        /\ Len(c) >= Len(o.prefix) + Len(o.delimiter)
        /\ IsSuffix(o.delimiter, c)}

\* A key that has one is not listed itself, even if it is one.
Folded(k, o) == Folders(k, o) # {}

\* What k is shown as: the shortest of them, or k itself.
Shown(k, o) ==
    IF Folded(k, o)
    THEN CHOOSE c \in Folders(k, o) : \A d \in Folders(k, o) : Len(c) <= Len(d)
    ELSE k

\* Every variable holds a value of its kind; a walk is under way while names
\* are being read, and no more is listed than there are keys.
ListTypeOK ==
    /\ stored \subseteq KeyNames /\ query \in Queries
    /\ phase \in {"ask", "walk", "done"}
    /\ token \in KeyNames \cup {<<>>}
    /\ sure \subseteq found \cap stored /\ lasting \subseteq stored
    /\ phase # "walk" => found = {}
    /\ listed \subseteq KeyNames

\* p shows of all the keys the first entries, n of them.
IsExact(p, all, o, n) ==
    LET keys == all \cap Meant(o)
        heads == {k \in keys : \A j \in keys : Before(j, k) => Shown(j, o) # Shown(k, o)}
        first == {k \in heads : Cardinality({j \in heads : Before(j, k)}) < n}
    IN /\ Range(p.objects) = {k \in first : ~Folded(k, o)}
       /\ Range(p.prefixes) = {Shown(k, o) : k \in {j \in first : Folded(j, o)}}
       /\ Ascending(p.objects) /\ Ascending(p.prefixes)
       /\ p.truncated <=> first # heads
       /\ p.truncated => \A k \in keys :
             \/ Shown(k, o) \in IF Folded(k, o) THEN Range(p.prefixes) ELSE Range(p.objects)
             \/ Before(p.last, k)

\* A page is what the query says of the keys it was made of: the first
\* entries in order, as many as asked for (a thousand for none, zero and
\* nonsense), each key that shows its delimiter as a common prefix, be it that
\* prefix itself, and each prefix once; it is truncated just when an entry is
\* left, and the marker then lets nothing be missed.
PagesAreExact ==
    made # None => IsExact(page, made.keys, made.options,
                           IF query.maxKeys \in 1..PageLimit THEN query.maxKeys ELSE PageLimit)

\* When the pager is through, every key that was left alone has been listed or
\* is under a common prefix that has.
NothingIsMissed ==
    phase = "done" =>
        LET o == listOptions(query, <<>>)
        IN \A k \in lasting \cap Meant(o) :
              Shown(k, o) \in IF Folded(k, o) THEN folders ELSE listed

\* No key is listed twice, except the empty one: as a marker it means no
\* marker, so that a page of one entry begins again.  A common prefix comes
\* again only if the page before ended in it, as its marker is a key.
NothingIsRepeated ==
    [][phase = "walk" /\ phase' # "walk" =>
        /\ \A k \in Range(page'.objects) \cap listed :
              k = <<>> /\ Range(page'.objects) \cup Range(page'.prefixes) = {k}
        /\ \A c \in Range(page'.prefixes) \cap folders :
              c = Head(page'.prefixes) /\ IsPrefix(c, token)]_listVars

\* The pager comes to an end, although keys may be added before it for ever,
\* unless the empty key makes up its pages.
PagerEnds == <>(phase = "done") \/ <>[](<<>> \in listed /\ token = <<>>)

=============================================================================
