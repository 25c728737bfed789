-------------------------------- MODULE MCPaths --------------------------------
(* What daem finds and makes under paths that other programs change meanwhile: the roots,
   layouts and destinations that it captures, and the files and directories of imports.
   A run explores each of the two beside the other at rest. *)
EXTENDS Naturals, TLC

CONSTANTS top, d1, d2, d3, Up, None, a, b

VARIABLES
    part,   \* what runs
    fs, gone, root, grant, evidence, layout, call, began, led, pathUsed,
    node, live, imp, hurt, raced, outdated, used

(* A root /a/b that is selected by its path or by an alias /l, and other programs that
   replace /a by another directory, move b into it, and retarget the alias. *)
to(absolute, names) == [absolute |-> absolute, names |-> names]
aliasTo(t) == [is |-> "alias", to |-> t]
directoryAt(d) == [is |-> "directory", at |-> d]
nothing == [is |-> "nothing"]

links == {to(TRUE, <<"a">>), to(FALSE, <<"a", "b", Up>>), to(TRUE, <<"l">>)}

tree ==
    [d \in {top, d1, d2, d3} |-> [n \in {"a", "b", "l"} |->
        CASE d = top /\ n = "a" -> directoryAt(d1)
          [] d = d1 /\ n = "b"   -> directoryAt(d2)
          [] d = top /\ n = "l" -> aliasTo(to(TRUE, <<"a">>))
          [] OTHER -> nothing]]

place(d, n, may) == [in |-> d, name |-> n, may |-> may]

places ==
    {place(top, "a", {nothing, directoryAt(d1), directoryAt(d3)}),
     place(d1, "b", {nothing, directoryAt(d2)}),
     place(d3, "b", {nothing, directoryAt(d2)}),
     place(top, "l", {nothing, directoryAt(d3)} \cup {aliasTo(t) : t \in links})}

Roots ==
    INSTANCE RootedPath WITH
        Directories <- {top, d1, d2, d3}, Slash <- top, Names <- {"a", "b", "l"},
        Targets <- links, Trees <- {tree}, Places <- places,
        Spellings <- {<<"a", "b">>, <<"l", "b">>},
        Wanted <- {"capture", "acquire", "acquire selected", "use", "launch", "select",
                   "match"},
        Limit <- [call |-> 3, foreign |-> 2],
        used <- pathUsed

(* The entry l in that root. *)
Entries ==
    INSTANCE RootedPath WITH
        Directories <- {top, d1, d2, d3}, Slash <- top, Names <- {"a", "b", "l"},
        Targets <- links, Trees <- {tree}, Places <- places,
        Spellings <- {<<"a", "b", "l">>, <<"l", "b", "l">>},
        Wanted <- {"destination", "prepare", "rebind", "authority"},
        Limit <- [call |-> 3, foreign |-> 2],
        used <- pathUsed

(* Two imports of different processes, beside which no other program acts, *)
Pair ==
    INSTANCE ImportWrite WITH
        Imports <- {a, b}, Process <- [i \in {a, b} |-> i], Skills <- {},
        Merging <- {}, Limit <- [fault |-> 1, foreign |-> 0]

(* an import of a tree, *)
Tree ==
    INSTANCE ImportWrite WITH
        Imports <- {a}, Process <- [i \in {a} |-> i], Skills <- {a},
        Merging <- {}, Limit <- [fault |-> 1, foreign |-> 2]

(* and one into a manifest that exists. *)
Merge ==
    INSTANCE ImportWrite WITH
        Imports <- {a}, Process <- [i \in {a} |-> i], Skills <- {},
        Merging <- {a}, Limit <- [fault |-> 1, foreign |-> 1]

ASSUME /\ Roots!LimitAssumption /\ Pair!ImportAssumption /\ Tree!ImportAssumption /\ Merge!ImportAssumption

Symmetric == Permutations({a, b})

pathVars == <<fs, gone, root, grant, evidence, layout, call, began, led, pathUsed>>
importVars == <<node, live, imp, hurt, raced, outdated, used>>

Init ==
    /\ part \in {"root", "entry", "pair", "tree", "merge"}
    /\ Roots!Init
    /\ CASE part = "merge" -> Merge!Init
         [] part = "pair"  -> Pair!Init
         [] OTHER          -> Tree!Init
    /\ part \in {"root", "entry", "tree"} => node = Tree!Root
    /\ part = "pair" => node = Pair!WithD

RootNext == part = "root" /\ Roots!Next /\ UNCHANGED <<part, importVars>>

EntryNext == part = "entry" /\ Entries!Next /\ UNCHANGED <<part, importVars>>

PairNext == part = "pair" /\ Pair!Next /\ UNCHANGED <<part, pathVars>>

TreeNext == part = "tree" /\ Tree!Next /\ UNCHANGED <<part, pathVars>>

MergeNext == part = "merge" /\ Merge!Next /\ UNCHANGED <<part, pathVars>>

Next == RootNext \/ EntryNext \/ PairNext \/ TreeNext \/ MergeNext

Spec == Init /\ [][Next]_<<part, pathVars, importVars>>

-----------------------------------------------------------------------------
(* When daem acts in a directory, the path led there when it last asked, aliases and
   prepared layouts included, and no more was looked up than was paid for (rootedpath). *)
PathsCurrent ==
    part \in {"root", "entry"} =>
        /\ Roots!TypeOK
        /\ Roots!CallsCurrent /\ Roots!SelectionCurrent
        /\ Roots!LayoutCurrent /\ Roots!ReservationCovers

(* A visible manifest has its source, and an import that succeeded its manifest, whatever
   other imports take back (adopt/write.go). *)
ImportBacked ==
    CASE part = "pair"  -> Pair!TypeOK /\ Pair!ManifestBacked /\ Pair!ImportedThere
      [] part = "merge" -> Merge!TypeOK /\ Merge!ManifestBacked
      [] part = "tree"  -> Tree!TypeOK /\ Tree!ManifestBacked /\ Tree!ImportedThere
      [] OTHER          -> TRUE

(* An import that fails says what it leaves behind, and none is written for a host that
   has changed since it was shown. *)
ImportTold ==
    CASE part = "pair" -> Pair!Disclosed /\ Pair!Confirmed
      [] part = "tree" -> Tree!Disclosed /\ Tree!Confirmed
      [] OTHER         -> TRUE

(* No import takes away or replaces what others have made. *)
OthersKept ==
    [][CASE part = "merge" -> Merge!KeepsOthers
         [] part = "pair"  -> Pair!KeepsOthers
         [] OTHER          -> Tree!KeepsOthers]_importVars

(* The import of a tree alone, and what the messages and a test of adopt say of it. *)
TreeSpec == Init /\ part = "tree" /\ [][TreeNext]_<<part, pathVars, importVars>>

(* The rollback of an import refuses to remove a source that was replaced after creation. *)
ReplacementKept == Tree!ReplacementKept

(* No parent that the commit of a source has created anew is left without a word. *)
ParentsTakenBack == part = "tree" => Tree!ParentsTakenBack
=============================================================================
