------------------------------ MODULE R2Listing ------------------------------
(***************************************************************************)
(* R2BucketObject#list (src/bindings/r2-bucket/R2Bucket.worker.ts): a      *)
(* caller follows the cursors of a listing, with or without a delimiter,   *)
(* while other callers put and delete keys.  Each page is one query.       *)
(*                                                                         *)
(* Keys are the strings that start with the prefix of the listing, as      *)
(* naturals in their order.  GroupOf is what the query groups by: the same *)
(* number for the keys of one delimited prefix, which are neighbours, and  *)
(* the key itself for a key of its own.                                    *)
(***************************************************************************)
EXTENDS Integers, FiniteSets, Sequences, Functions

CONSTANTS
  ListedKeys,
  GroupOf,      \* [k] the least key with the same delimited prefix
  Prefixes,     \* the groups that are a delimited prefix
  PageLimit,    \* opts.limit
  StartAfter    \* opts.startAfter, or 0

ASSUME ListedKeysAssumption ==
  /\ ListedKeys \subseteq Nat \ {0}
  /\ GroupOf \in [ListedKeys -> ListedKeys]
  /\ \A k \in ListedKeys : GroupOf[k] <= k /\ GroupOf[GroupOf[k]] = GroupOf[k]
  /\ \A j, k, l \in ListedKeys : j < k /\ k < l /\ GroupOf[j] = GroupOf[l] => GroupOf[k] = GroupOf[j]
  /\ Prefixes \subseteq Range(GroupOf)
  /\ \A k \in ListedKeys : GroupOf[k] # k => GroupOf[k] \in Prefixes
ASSUME LimitAssumption == PageLimit \in Nat \ {0} /\ StartAfter \in Nat

VARIABLES
  present,   \* the keys of the bucket
  pager,     \* the caller: where it is, and what it was given
  stayed,    \* history: keys a complete listing has to account for
  arrived    \* history: keys put since the listing began

listingVars == <<present, pager, stayed, arrived>>

ListingTypeOK ==
  /\ present \subseteq ListedKeys
  /\ pager \in [stage : {"paging", "done"}, after : Nat, listed : Seq(ListedKeys)]
  /\ stayed \subseteq ListedKeys
  /\ arrived \subseteq ListedKeys

ListingInit ==
  /\ present \in {S \in SUBSET ListedKeys : IsFiniteSet(S)}
  /\ pager = [stage |-> "paging", after |-> StartAfter, listed |-> <<>>]
  /\ stayed = {k \in present : k > StartAfter}
  /\ arrived = {}

KeyPut(k) ==
  /\ k \notin present
  /\ present' = present \cup {k}
  /\ stayed' = stayed \cup {j \in {k} : pager.stage = "paging" /\ k > pager.after}
  /\ arrived' = arrived \cup {k}
  /\ UNCHANGED pager

KeyDeleted(k) ==
  /\ k \in present
  /\ present' = present \ {k}
  /\ stayed' = stayed \ {k}
  /\ UNCHANGED <<pager, arrived>>

\* The rows of the query: a group is represented by its last key, last_key.
PageRows ==
  {k \in present : /\ k > pager.after
                   /\ \A j \in present : GroupOf[j] = GroupOf[k] => j <= k}

FirstRows(S, n) == {k \in S : Cardinality({j \in S : j < k}) < n}

InKeyOrder(S) ==
  CHOOSE s \in [1..Cardinality(S) -> S] : \A i, j \in DOMAIN s : i < j => s[i] < s[j]

\* Mutant: the cursor is the prefix itself, as if it were a key.
FirstOfGroup(rows) == GroupOf[CHOOSE k \in rows : \A j \in rows : j <= k]

\* last_key of the last row of the page
LastKey(rows) == CHOOSE k \in rows : \A j \in rows : j <= k

\* One call: a row more than the limit tells whether there is a next page.
NextPage ==
  LET queried == FirstRows(PageRows, PageLimit + 1)
      rows == FirstRows(queried, PageLimit)
      hasMoreRows == Cardinality(queried) = PageLimit + 1
  IN
  /\ pager.stage = "paging"
  /\ pager' = [stage  |-> IF hasMoreRows THEN "paging" ELSE "done",
               after  |-> IF hasMoreRows THEN LastKey(rows) ELSE pager.after,
               listed |-> pager.listed \o [i \in 1..Cardinality(rows) |-> GroupOf[InKeyOrder(rows)[i]]]]
  /\ UNCHANGED <<present, stayed, arrived>>

ListingNext ==
  \/ \E k \in ListedKeys : KeyPut(k) \/ KeyDeleted(k)
  \/ NextPage

ListingSpec == ListingInit /\ [][ListingNext]_listingVars

-----------------------------------------------------------------------------
(* Properties *)

\* Listing to the end accounts for every key that was there, or came behind the
\* cursor, and has stayed: by itself or by its delimited prefix.  Keys come in
\* order and once; a prefix comes again only if a key of it was put meanwhile:
\* "If we didn't return the last key, the next page may return the same
\* delimited prefix".
PagesAreComplete ==
  /\ pager.stage = "done" => {GroupOf[k] : k \in stayed} \subseteq Range(pager.listed)
  /\ \A i, j \in DOMAIN pager.listed : i < j =>
       \/ pager.listed[i] < pager.listed[j]
       \/ /\ pager.listed[i] = pager.listed[j]
          /\ pager.listed[i] \in Prefixes
          /\ \E k \in arrived : GroupOf[k] = pager.listed[i]
=============================================================================
