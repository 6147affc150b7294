------------------------------- MODULE Shares -------------------------------
(***************************************************************************)
(* Sharing and import (routes/share.rs, share_codec.rs and import_share of *)
(* the three drives): a selection of one data source is shared in the      *)
(* cloud and packed into an sd:// link, and the link is imported, perhaps  *)
(* more than once at a time, into a directory of another data source,      *)
(* where the managed entries get names under that directory's key.         *)
(*                                                                         *)
(* The storage name <<i, k, n>> belongs to item i.  With a key k it is an  *)
(* envelope under k (its size, secret and name are those of the item), or, *)
(* when n > 0, one a cloud has renamed to keep names apart, which no key   *)
(* opens; under Literal it is the name of a foreign entry.                 *)
(***************************************************************************)
EXTENDS Naturals, FiniteSets, Sequences, SequencesExt, FiniteSetsExt

CONSTANTS Items, Keys,
          Literal,  \* the key of a name that is no envelope
          Home,     \* the key of the directory imported into
          Imports,
          Nil,
          Configs,  \* data sources: [encryption, volume, disguise, format]
          Forces    \* whether an import may, must or must not be forced

VARIABLES
  from, to,  \* the two data sources
  key,       \* the key each item's name was made with
  share,     \* what the share in the cloud holds
  link,      \* the link, or Nil
  dest,      \* the directory imported into
  imp        \* each import

vars == <<from, to, key, share, link, dest, imp>>

\* The template of the leaf names is opaque: those of different templates differ.
Config == [encryption : BOOLEAN, volume : BOOLEAN, disguise : BOOLEAN, format : STRING]
Managed(ds) == ds.encryption \/ ds.volume \/ ds.disguise

\* wrong: the entries it took a wrong name for.
Waiting == [pc |-> "new", list |-> <<>>, at |-> <<>>, next |-> 1, seen |-> 0,
            landed |-> {}, wrong |-> {}]
SetImp(c, new) == imp' = [imp EXCEPT ![c] = new]
Fails(c) == SetImp(c, [Waiting EXCEPT !.pc = "error"])
Succeeds(c) ==
  SetImp(c, [Waiting EXCEPT !.pc = "ok", !.landed = imp[c].landed, !.wrong = imp[c].wrong])

(***************************************************************************)
(* Export.                                                                 *)
(***************************************************************************)
\* parent_keys: several entries of one directory need its key once.
PushKey(keys, k) == IF Contains(keys, k) THEN keys ELSE Append(keys, k)

Pack(sel, native) ==
  LET managed == {i \in sel : key[i] # Literal}
  IN  [native |-> native, encrypted |-> from.encryption, disguise |-> from.disguise,
       items |-> Cardinality(sel), managed |-> Cardinality(managed),
       keys |-> FoldLeft(LAMBDA keys, i : PushKey(keys, key[i]), <<>>, SetToSeq(managed))]

\* encode
Encodable(pack) ==
  /\ pack.items > 0 /\ pack.managed <= pack.items
  /\ (pack.managed = 0) = (pack.keys = <<>>) /\ Len(pack.keys) <= pack.managed
  /\ pack.encrypted => pack.managed # 0

\* decode_plain
Decodable(pack) ==
  /\ pack.items > 0 /\ pack.managed <= pack.items
  /\ ~(pack.encrypted /\ pack.managed = 0)
  /\ Len(pack.keys) <= pack.managed /\ (pack.managed # 0) = (Len(pack.keys) # 0)
  /\ IsInjective(pack.keys)

\* A selection of foreign entries alone can only be a share of the cloud itself, one
\* with managed entries only an sd:// link.  The share is made before the link, and
\* stays when the link cannot be (an extraction code outside the alphabet, say).
Export ==
  /\ link = Nil /\ share = {}
  /\ \E sel \in SUBSET Items \ {{}}, wish \in BOOLEAN, coded \in BOOLEAN :
       LET managed == \E i \in sel : key[i] # Literal
           native == wish \/ (Managed(from) /\ ~managed)
           pack == Pack(sel, native)
       IN  /\ ~(native /\ managed)
           /\ share' = sel
           /\ link' = IF native \/ (Encodable(pack) /\ coded) THEN pack ELSE Nil
  /\ UNCHANGED <<from, to, key, dest, imp>>

\* The sharer goes on using the entries: deletes one, moves one to another directory.
Unshare(i) == /\ link # Nil /\ i \in share
              /\ share' = share \ {i}
              /\ UNCHANGED <<from, to, key, link, dest, imp>>
Rehome(i, k) == /\ link # Nil /\ i \in share /\ key[i] # Literal
                /\ key' = [key EXCEPT ![i] = k]
                /\ UNCHANGED <<from, to, share, link, dest, imp>>

(***************************************************************************)
(* Import.                                                                 *)
(***************************************************************************)
\* Mutant: whatever the disguise.
ModesAgree(force) == link.encrypted = to.encryption \/ force

Compatible(force) == /\ link.encrypted = to.encryption \/ force
                     /\ link.disguise = to.disguise

\* Names are rebuilt, and only then is the outcome compared with the link.
Rebuilds == ~link.native /\ link.managed # 0 /\ Managed(to)

Begin(c, force) ==
  /\ imp[c].pc = "new" /\ link # Nil
  /\ IF link.native \/ (Decodable(link) /\ Compatible(force))
     THEN SetImp(c, [imp[c] EXCEPT !.pc = "list"]) ELSE Fails(c)
  /\ UNCHANGED <<from, to, key, share, link, dest>>

\* What the share holds: the pages of its root, with the names they have now.
ListShare(c) ==
  /\ imp[c].pc = "list"
  /\ IF share = {} THEN Fails(c)
     ELSE SetImp(c, [imp[c] EXCEPT !.pc = "transfer",
                       !.list = [j \in 1..Cardinality(share) |->
                                   LET i == SetToSeq(share)[j] IN [item |-> i, key |-> key[i]]]])
  /\ UNCHANGED <<from, to, key, share, link, dest>>

Names == {o.name : o \in dest}
\* A cloud keeps names apart by itself (auto_rename, newcopy).
FreeName(i) == <<i, key[i], Min({n \in 0..Cardinality(dest) : <<i, key[i], n>> \notin Names})>>

Asked(c) == {imp[c].list[j].item : j \in DOMAIN imp[c].list}
LandedAs(c, i) == (CHOOSE o \in dest : o.by = c /\ o.item = i).name

\* The cloud takes the entries over, all of them or some; a failure of one, of a task
\* it waits for or of the answer ends the import and leaves what is there.
Transfer(c) ==
  /\ imp[c].pc = "transfer"
  /\ \E some \in SUBSET (Asked(c) \cap share), answered \in BOOLEAN :
       /\ dest' = dest \cup {[by |-> c, item |-> i, name |-> FreeName(i)] : i \in some}
       /\ IF answered /\ some = Asked(c)
          THEN SetImp(c, [imp[c] EXCEPT !.pc = "names", !.landed = Asked(c)])
          ELSE Fails(c)
  /\ UNCHANGED <<from, to, key, share, link>>

SharedName(entry) == <<entry.item, entry.key, 0>>

\* Mutant: the name in the share is the name it landed with.
SourceName(c, shown, entry) == SharedName(entry)

\* From the answer (Baidu), by id (Aliyun) or from a listing (Quark), where an entry that
\* is not shown is taken to have kept the name it has in the share.
LandedName(c, shown, entry) ==
  IF entry.item \in shown THEN LandedAs(c, entry.item) ELSE SharedName(entry)
Misnamed(c, shown) ==
  {i \in Asked(c) \ shown :
     \E j \in DOMAIN imp[c].list :
       imp[c].list[j].item = i /\ SharedName(imp[c].list[j]) # LandedAs(c, i)}

\* Mutant: entries that have gone from the share are not missed.
NoneMissed(c) == Len(imp[c].list) <= link.items

AllThere(c) == Len(imp[c].list) = link.items

ReadNames(c) ==
  /\ imp[c].pc = "names"
  /\ \/ Fails(c)
     \/ /\ Rebuilds => AllThere(c)
        /\ \E shown \in SUBSET Asked(c) :
             SetImp(c, [imp[c] EXCEPT
               !.at = [j \in DOMAIN imp[c].list |-> LandedName(c, shown, imp[c].list[j])],
               !.wrong = Misnamed(c, shown),
               !.pc = IF Rebuilds THEN "rename" ELSE "ok"])
  /\ UNCHANGED <<from, to, key, share, link, dest>>

\* The next entry: one that a key of the link opens gets a name under Home.  That the
\* cloud refuses a name that is taken is assumed of it: Aliyun is not told how to treat
\* one by a rename within a directory.
Rename(c) ==
  /\ imp[c].pc = "rename" /\ imp[c].next <= Len(imp[c].list)
  /\ LET j == imp[c].next
         entry == imp[c].list[j]
         target == <<entry.item, Home, 0>>
         done == [imp[c] EXCEPT !.next = @ + 1, !.seen = @ + 1]
     IN  \/ /\ ~Contains(link.keys, entry.key)
            /\ SetImp(c, [imp[c] EXCEPT !.next = @ + 1]) /\ UNCHANGED dest
         \/ /\ Contains(link.keys, entry.key) /\ target \notin Names
            /\ \E o \in dest : /\ o.name = imp[c].at[j]
                               /\ dest' = (dest \ {o}) \cup {[o EXCEPT !.name = target]}
            /\ SetImp(c, done)
         \/ \* a name that is taken or not found, or trouble of the cloud's own
            Contains(link.keys, entry.key) /\ Fails(c) /\ UNCHANGED dest
  /\ UNCHANGED <<from, to, key, share, link>>

Finish(c) ==
  /\ imp[c].pc = "rename" /\ imp[c].next > Len(imp[c].list)
  /\ IF imp[c].seen = link.managed THEN Succeeds(c) ELSE Fails(c)
  /\ UNCHANGED <<from, to, key, share, link, dest>>

(***************************************************************************)
(* In the directory there may be what an earlier import brought, or the    *)
(* shared entries themselves.                                              *)
(***************************************************************************)
Init ==
  /\ from \in Configs /\ to \in Configs
  /\ key \in [Items -> IF Managed(from) THEN Keys \cup {Literal} ELSE {Literal}]
  /\ share = {} /\ link = Nil
  /\ \E there \in SUBSET (Items \X {TRUE, FALSE}) :
       dest = {[by |-> Nil, item |-> p[1], name |-> <<p[1], IF p[2] THEN key[p[1]] ELSE Home, 0>>]
                 : p \in there}
  /\ imp = [c \in Imports |-> Waiting]

ImportStep(c) ==
  \/ \E force \in Forces : Begin(c, force)
  \/ ListShare(c) \/ Transfer(c) \/ ReadNames(c) \/ Rename(c) \/ Finish(c)

Next == Export \/ (\E c \in Imports : ImportStep(c))
        \/ \E i \in Items : Unshare(i) \/ \E k \in Keys : Rehome(i, k)
Spec == Init /\ [][Next]_vars

Name == Items \X (Keys \cup {Literal, Home}) \X (0..Cardinality(Items) * (Cardinality(Imports) + 2))
TypeOK ==
  /\ from \in Config /\ to \in Config /\ key \in [Items -> Keys \cup {Literal}]
  /\ share \subseteq Items
  /\ \A o \in dest : o.name \in Name
  /\ \A o, p \in dest : o.name = p.name => o = p
  /\ \A c \in Imports : /\ imp[c].pc \in {"new", "list", "transfer", "names", "rename", "ok", "error"}
                        /\ imp[c].seen <= Cardinality(Items) /\ imp[c].next <= Cardinality(Items) + 1

\* A link that was given out can be opened: what encode lets pass decode accepts, for
\* every selection of entries (share_export, share_codec.rs).
EveryLinkOpens == link # Nil => link.native \/ Decodable(link)

\* What an import presents as managed: what has a name under the directory's key.
Shown == \E o \in dest : o.by # Nil /\ o.name[2] = Home

\* Its bytes are of the encryption and the disguise the data source expects.
ShownDecodes ==
  Shown => from.encryption = to.encryption /\ from.disguise = to.disguise

\* A link is of use: it opens, and what an import of it presents as managed the data
\* source can decode (the checks of share_import).
LinksWork == EveryLinkOpens /\ ShownDecodes

\* What an import presents as managed can be read: decoded, and before that found, by
\* the template the data source names its leaves with (resolve_leaves, naming.rs).
ShownIsReadable == ShownDecodes /\ (Shown => from.format = to.format)

\* An import that answers Ok brought everything the share listed when it was asked, and
\* has it still.  Where names are rebuilt that is as many entries as the link says, the
\* managed ones with a name under the directory's key, the foreign ones with none, unless
\* it took a wrong name for one of them (share_import, "导入后受管的仍是受管，外来的仍是
\* 外来").  Elsewhere the link is not asked: what had gone from the share is not missed.
ImportIsWhole ==
  \A c \in Imports : imp[c].pc = "ok" =>
    LET brought == {o \in dest : o.by = c}
        homed == {o \in brought : o.name[2] = Home}
    IN  /\ imp[c].landed = {o.item : o \in brought}
        /\ Rebuilds /\ imp[c].wrong = {} =>
             /\ Cardinality(brought) = link.items
             /\ Cardinality(homed) = link.managed
             /\ \A o \in brought \ homed : key[o.item] = Literal

\* Nobody but the import that brought an entry renames it, and nobody takes one away: not
\* what was in the directory before, not what another import of the same link brought,
\* unless an import took its name, wrongly, for that of an entry of its own.
Untouched ==
  \A o \in dest \ dest' :
    \E c \in Imports : /\ imp'[c] # imp[c] /\ (o.by = c \/ o.item \in imp[c].wrong)
                      /\ \E p \in dest' : p.by = o.by /\ p.item = o.item
OthersUntouched == [][Untouched]_vars
=============================================================================
