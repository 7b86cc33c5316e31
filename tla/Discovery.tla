------------------------------ MODULE Discovery ------------------------------
(***************************************************************************)
(* Finding and naming identifiers in the explorer: the search field        *)
(* (DIDDiscoveryBar.tsx) with its two providers, which ask the agent one   *)
(* question after the other, and the profile plugin (IdentifierProfile.tsx *)
(* of context/plugins), which tries one source after the other.  What the  *)
(* agent knows may change between two questions.                           *)
(***************************************************************************)
EXTENDS Naturals, FiniteSets

CONSTANTS
    None,
    Dids, Words,  \* identifiers, and what is typed to find them
    Texts,        \* aliases and names
    Within,       \* pairs of a word and a text, the first a part of the second: LIKE '%...%'
    InDid,        \* pairs of a word and an identifier whose text it is a part of
    Searches,     \* the searches that can be under way at a time
    MaxChanges    \* bound: how often the agent's data change

VARIABLES
    data,       \* the agent's: did -> None, or [alias, names of its Profiles, kudos]
    changes,
    typed,      \* the text of the field, or None
    options,    \* the identifiers offered
    optionsOf,  \* history: the text they were found for
    searches,   \* searchResult: where each call is and what it has found
    overlapped, \* history: the text was typed while a search was under way
    methods,    \* which of the agent's methods are exposed
    lookups     \* did -> getIdentifierProfile: where it is, and the source of the name shown

bar == <<typed, options, optionsOf, searches, overlapped>>
profile == <<methods, lookups>>
vars == <<data, changes, bar, profile>>

Known == [alias : Texts \cup {None}, names : SUBSET Texts, kudos : BOOLEAN]
IsKnown(d) == data[d] # None
Idle == [query |-> None, at |-> "idle", alias |-> {}, store |-> {}, always |-> {}, failed |-> FALSE]

-----------------------------------------------------------------------------
(* What each question of the providers finds.                              *)

Like(w, text) == text # None /\ <<w, text>> \in Within
ByExactAlias(w) == {d \in Dids : IsKnown(d) /\ data[d].alias = w}
ByAlias(w) == {d \in Dids : IsKnown(d) /\ Like(w, data[d].alias)}
ByName(w) == {d \in Dids : IsKnown(d) /\ \E n \in data[d].names : Like(w, n)}
BySubject(w) == {d \in Dids : IsKnown(d) /\ data[d].names # {} /\ <<w, d>> \in InDid}
ByDid(w) == {d \in Dids : IsKnown(d) /\ <<w, d>> \in InDid}

\* Whom a search can find, and how.
Matching(w) == ({"alias"} \X ByAlias(w)) \cup ({"name"} \X ByName(w)) \cup ({"did"} \X ByDid(w))

\* What the profile plugin can name an identifier by; the better source has the higher rank.
Sources(d) ==
    IF ~IsKnown(d) THEN {}
    ELSE {s \in {"Profile", "Kudos", "alias"} :
            \/ s = "Profile" /\ data[d].names # {}
            \/ s = "Kudos" /\ data[d].kudos
            \/ s = "alias" /\ data[d].alias # None}
Rank(s) == CASE s = "Profile" -> 3 [] s = "Kudos" -> 2 [] s = "alias" -> 1 [] s = "did" -> 0

\* Credentials about an identifier are received or deleted, it is created, renamed or deleted.
Change(d, new) ==
    /\ changes < MaxChanges
    /\ changes' = changes + 1
    /\ data' = [data EXCEPT ![d] = new]
    /\ searches' = [s \in Searches |->
           [searches[s] EXCEPT !.always = {m \in @ :
               \E w \in Words : w = searches[s].query /\ m \in Matching(w)'}]]
    /\ lookups' = [e \in Dids |-> [lookups[e] EXCEPT !.always = @ \cap Sources(e)']]
    /\ UNCHANGED <<typed, options, optionsOf, overlapped, methods>>

-----------------------------------------------------------------------------
(* The search field.                                                       *)

Busy == \E s \in Searches : searches[s].at # "idle"

\* handleSearch: every change of the text starts a search, whatever is under way; an empty
\* text empties the options.
Type(w, s) ==
    /\ typed' = w /\ searches[s] = Idle
    /\ overlapped' = Busy
    /\ IF w = None
       THEN options' = {} /\ optionsOf' = None /\ UNCHANGED searches
       ELSE /\ searches' = [searches EXCEPT ![s] =
                  [Idle EXCEPT !.query = w, !.at = "exact", !.always = Matching(w)]]
            /\ UNCHANGED <<options, optionsOf>>
    /\ UNCHANGED <<data, changes, profile>>

\* An option is chosen: the field holds its DID.
Choose(d) ==
    /\ d \in options
    /\ typed' = d
    /\ UNCHANGED <<options, optionsOf, searches, overlapped, data, changes, profile>>

\* AliasDiscoveryProvider; an error is no match.
AskExactAlias(s) ==
    /\ searches[s].at = "exact"
    /\ \E ok \in BOOLEAN : searches' = [searches EXCEPT
           ![s].at = "name",
           ![s].alias = IF ok THEN ByExactAlias(searches[s].query) ELSE {},
           ![s].failed = ~ok]
    /\ UNCHANGED <<data, changes, typed, options, optionsOf, overlapped, profile>>

Question == [name |-> "subject", subject |-> "did", did |-> "alias", alias |-> "answer"]
StoreFindsProfiles(at, w) ==  \* mutant: identifiers are found through their credentials only
    CASE at = "name" -> ByName(w)
      [] at = "subject" -> BySubject(w)
      [] at = "did" -> BySubject(w)
      [] at = "alias" -> ByAlias(w)
StoreFinds(at, w) ==
    CASE at = "name" -> ByName(w)
      [] at = "subject" -> BySubject(w)
      [] at = "did" -> ByDid(w)
      [] at = "alias" -> ByAlias(w)

\* DataStoreDiscoveryProvider asks four questions.  An error in one is its end: the matches of
\* the others are lost with it, and the agent answers with those of the other provider.
AskStore(s) ==
    /\ searches[s].at \in DOMAIN Question
    /\ \/ searches' = [searches EXCEPT
              ![s].at = Question[searches[s].at],
              ![s].store = @ \cup StoreFinds(searches[s].at, searches[s].query)]
       \/ searches' = [searches EXCEPT
              ![s].at = "answer", ![s].store = {}, ![s].failed = TRUE]
    /\ UNCHANGED <<data, changes, typed, options, optionsOf, overlapped, profile>>

\* The options are those of the search that was answered last.
Answer(s) ==
    /\ searches[s].at = "answer"
    /\ options' = searches[s].alias \cup searches[s].store
    /\ optionsOf' = searches[s].query
    /\ searches' = [searches EXCEPT ![s] = Idle]
    /\ UNCHANGED <<data, changes, typed, overlapped, profile>>

-----------------------------------------------------------------------------
(* The name of an identifier.                                              *)

\* The page asks, or asks again when its window is returned to.
Lookup(d) ==
    /\ lookups[d].at = "idle"
    /\ lookups' = [lookups EXCEPT ![d].at = "Profile", ![d].always = Sources(d), ![d].failed = FALSE]
    /\ UNCHANGED <<data, changes, bar, methods>>

Exposed(s) == IF s = "alias" THEN "didManagerGet" \in methods
              ELSE "dataStoreORMGetVerifiableCredentials" \in methods
After(s) == CASE s = "Profile" -> "Kudos" [] s = "Kudos" -> "alias" [] s = "alias" -> "did"

\* The lookup tries a source: it has a name, or none, or it fails, which is passed over.
Try(d) ==
    /\ lookups[d].at \in {"Profile", "Kudos", "alias"}
    /\ LET s == lookups[d].at
       IN \/ /\ Exposed(s) /\ s \in Sources(d)
             /\ lookups' = [lookups EXCEPT ![d].at = "idle", ![d].shows = s]
          \/ /\ ~Exposed(s) \/ s \notin Sources(d)
             /\ lookups' = [lookups EXCEPT ![d].at = After(s)]
          \/ /\ Exposed(s)
             /\ lookups' = [lookups EXCEPT ![d].at = After(s), ![d].failed = TRUE]
    /\ UNCHANGED <<data, changes, bar, methods>>

\* The name is taken from the identifier itself: the host of a URL, or the shortened DID.
NameByDid(d) ==
    /\ lookups[d].at = "did"
    /\ lookups' = [lookups EXCEPT ![d].at = "idle", ![d].shows = "did"]
    /\ UNCHANGED <<data, changes, bar, methods>>

-----------------------------------------------------------------------------
Init ==
    /\ data \in [Dids -> Known \cup {None}]
    /\ changes = 0
    /\ typed = None /\ options = {} /\ optionsOf = None /\ overlapped = FALSE
    /\ searches = [s \in Searches |-> Idle]
    /\ methods \in SUBSET {"dataStoreORMGetVerifiableCredentials", "didManagerGet"}
    /\ lookups = [d \in Dids |-> [at |-> "idle", always |-> {}, failed |-> FALSE, shows |-> None]]

\* Kudos make no difference to a search.
WithoutKudos == {new \in Known : ~new.kudos} \cup {None}

SearchNext ==
    \/ \E s \in Searches :
           \/ \E w \in Words \cup {None} : Type(w, s)
           \/ AskExactAlias(s) \/ AskStore(s) \/ Answer(s)
    \/ \E d \in Dids : Choose(d) \/ \E new \in WithoutKudos : Change(d, new)

ProfileNext ==
    \E d \in Dids :
        Lookup(d) \/ Try(d) \/ NameByDid(d) \/ \E new \in Known \cup {None} : Change(d, new)

Spec == Init /\ [][SearchNext \/ ProfileNext]_vars

-----------------------------------------------------------------------------
(* Properties.                                                             *)

\* A search that ends, and of which no question failed, offers what matched all the while.
SearchFinds(s) ==
    searches[s].at = "answer" /\ searches'[s].at = "idle" /\ ~searches[s].failed =>
        \A m \in searches[s].always : m[2] \in options'

\* When the last text was typed with no search under way, and its own has been answered, the
\* options are those found for this text; an empty field has none.
OptionsFollowText ==
    ~overlapped /\ ~Busy =>
        /\ typed = None => options = {}
        /\ typed \in Words => optionsOf = typed

\* A lookup that ends, and met no error, names by a source at least as good as each there was.
LookupNamesBest(d) ==
    lookups[d].at # "idle" /\ lookups'[d].at = "idle" /\ ~lookups'[d].failed =>
        \A s \in lookups[d].always : Exposed(s) => Rank(s) <= Rank(lookups'[d].shows)

\* A search offers every identifier that matched all the while by the name of a Profile, or by
\* its alias, or by its DID, and an identifier is named by the best source that it had all the
\* while, of those the agent exposes, although the data change between the questions; and
\* what is offered is what was found for the text in the field.
FindsWhatIsKnown ==
    [][/\ OptionsFollowText'
       /\ \A s \in Searches : SearchFinds(s)
       /\ \A d \in Dids : LookupNamesBest(d)]_vars
=============================================================================
