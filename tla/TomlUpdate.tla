------------------------------- MODULE TomlUpdate -------------------------------
(***************************************************************************)
(* update_toml_file_with_new_config of file_io/tomls.py: the values of a   *)
(* TOML file are replaced in its text, line by line, so that its comments  *)
(* and its order stay; config_toml_editor.update_properties calls it.      *)
(*                                                                         *)
(* A line is a section header, a key with its value, an item or the end of *)
(* a list that spans lines, or a comment.  depth is its count of '[' less  *)
(* its count of ']', by which the code finds the end of a list.            *)
(***************************************************************************)
EXTENDS Integers, Sequences, SequencesExt, FiniteSetsExt

CONSTANTS TomlTexts,     \* names of sections and keys, values and comments
          TomlFiles,     \* files, as sequences of lines, that are edited
          Changes,       \* changes_dict: <<section, key>> -> value, as functions
          ChangesFiles,  \* files given as changes_config_file_path
          MaxUpdates     \* bound

NoLines == <<>>

Kinds == {"section", "key", "list", "item", "end", "comment"}
Line == [kind : Kinds, name : TomlTexts, value : TomlTexts, depth : {-1, 0, 1}]
Section(s) == [kind |-> "section", name |-> s, value |-> "", depth |-> 0]
Key(k, v) == [kind |-> "key", name |-> k, value |-> v, depth |-> 0]
ListKey(k) == [kind |-> "list", name |-> k, value |-> "", depth |-> 1]
Item(v) == [kind |-> "item", name |-> "", value |-> v, depth |-> 0]
ListEnd == [kind |-> "end", name |-> "", value |-> "", depth |-> -1]
Comment(text) == [kind |-> "comment", name |-> "", value |-> text, depth |-> 0]

(* What tomllib reads: the value of a key is a sequence of one value, or   *)
(* of "list" and the items.                                                *)
IsKey(line) == line.kind \in {"key", "list"}
SectionAt(lines, i) ==
    LET headers == {h \in 1..i : lines[h].kind = "section"}
    IN  IF headers = {} THEN "" ELSE lines[Max(headers)].name
KeyAt(lines, i) == <<SectionAt(lines, i), lines[i].name>>
EndOfList(lines, i) == Min({e \in i + 1..Len(lines) : lines[e].kind = "end"})
ItemsOf(block) ==
    LET items[n \in 0..Len(block)] ==
            IF n = 0 THEN <<>>
            ELSE IF block[n].kind = "item" THEN Append(items[n - 1], block[n].value)
            ELSE items[n - 1]
    IN  items[Len(block)]
ValueAt(lines, i) ==
    IF lines[i].kind = "key" THEN <<lines[i].value>>
    ELSE <<"list">> \o ItemsOf(SubSeq(lines, i, EndOfList(lines, i)))
KeyLines(lines) == {i \in 1..Len(lines) : IsKey(lines[i])}
KeysOf(lines) == {KeyAt(lines, i) : i \in KeyLines(lines)}
read_toml_file(lines) ==
    [key \in KeysOf(lines) |->
        ValueAt(lines, CHOOSE i \in KeyLines(lines) : KeyAt(lines, i) = key)]
IsList(value) == value[1] = "list"

(* What tomllib takes, as far as the editing rests on it: a list is closed *)
(* before anything else begins, no section and no key of one comes twice.  *)
LegalLine(line) ==
    /\ line.depth = CASE line.kind = "list" -> 1 [] line.kind = "end" -> -1 [] OTHER -> 0
    /\ line.kind = "section" => line.name # ""
    /\ line.kind = "key" => line.value # "list"
Closes(lines, i, e) ==
    /\ e \in i + 1..Len(lines) /\ lines[e].kind = "end"
    /\ \A k \in i + 1..e - 1 : lines[k].kind \in {"item", "comment"}
OneOfEach(lines) ==
    \A i, j \in 1..Len(lines) :
        \/ /\ lines[i].kind = "section" /\ lines[j].kind = "section"
           /\ lines[i].name = lines[j].name
        \/ IsKey(lines[i]) /\ IsKey(lines[j]) /\ KeyAt(lines, i) = KeyAt(lines, j)
        => i = j
Legal(lines) ==
    /\ lines \in Seq(Line)
    /\ \A i \in 1..Len(lines) :
         /\ LegalLine(lines[i])
         /\ lines[i].kind = "list" => \E e \in 1..Len(lines) : Closes(lines, i, e)
    /\ OneOfEach(lines)
ASSUME TomlAssumption ==
    /\ "" \in TomlTexts /\ "list" \in TomlTexts
    /\ \A lines \in TomlFiles \cup ChangesFiles : Legal(lines)
    /\ \A changes \in Changes : \A key \in DOMAIN changes :
         /\ changes[key] \in Seq(TomlTexts) /\ changes[key] # <<>>
         /\ ~IsList(changes[key]) => Len(changes[key]) = 1
    /\ MaxUpdates \in Nat

VARIABLES toml,      \* the lines of the file
          tomlWas,   \* history: its lines before the last update
          wanted,    \* history: what the last update was to change
          updated,   \* how it ended: "no", "written", "nothing", "raised"
          updates

toml_vars == <<toml, tomlWas, wanted, updated, updates>>

TomlInit ==
    /\ toml \in TomlFiles
    /\ tomlWas = NoLines /\ wanted = [key \in {} |-> NoLines]
    /\ updated = "no" /\ updates = 0
-----------------------------------------------------------------------------
(* _get_section_bounds: the first line of a section and the line after it, *)
(* <<>> when there is none.                                                *)
Mutant_get_section_bounds(lines, section) ==
    LET headers == {i \in 1..Len(lines) : lines[i].kind = "section"}
        starts == {i \in headers : lines[i].name = section}
    IN  IF section = "" THEN <<1, Min(headers \cup {Len(lines) + 1})>>
        ELSE IF starts = {} THEN <<>> ELSE <<1, Len(lines) + 1>>
_get_section_bounds(lines, section) ==
    LET headers == {i \in 1..Len(lines) : lines[i].kind = "section"}
        After(i) == Min({h \in headers : h > i} \cup {Len(lines) + 1})
        starts == {i \in headers : lines[i].name = section}
    IN  IF section = "" THEN <<1, After(0)>>
        ELSE IF starts = {} THEN <<>> ELSE <<Min(starts), After(Min(starts))>>

(* _find_key_block: the line of a key and the line after its value.  The   *)
(* lines of a list are counted until as many ']' as '[' were seen.         *)
DepthTo(lines, i, j) ==
    LET depth[n \in 0..j - i + 1] ==
            IF n = 0 THEN 0 ELSE depth[n - 1] + lines[i + n - 1].depth
    IN  depth[j - i + 1]
_find_key_block(lines, key, section) ==
    LET bounds == _get_section_bounds(lines, section)
        at == {i \in bounds[1]..bounds[2] - 1 : IsKey(lines[i]) /\ lines[i].name = key}
        i == Min(at)
        closed == {j \in i..bounds[2] - 1 : DepthTo(lines, i, j) <= 0}
    IN  IF bounds = <<>> THEN <<>>
        ELSE IF at = {} THEN <<>>
        ELSE IF closed = {} THEN <<i, bounds[2]>> ELSE <<i, Min(closed) + 1>>

Spliced(lines, block, new) ==
    SubSeq(lines, 1, block[1] - 1) \o new \o SubSeq(lines, block[2], Len(lines))

(* _replace_scalar_line: only a value on one line, with its comment.       *)
_replace_scalar_line(lines, section, key, value) ==
    LET block == _find_key_block(lines, key, section)
    IN  IF block = <<>> THEN lines
        ELSE IF block[2] - block[1] # 1 THEN lines
        ELSE Spliced(lines, block, <<Key(key, value[1])>>)

(* _replace_list_block_from_changes, or the items of changes_dict one per  *)
(* line.                                                                   *)
ListBlock(key, value) ==
    <<ListKey(key)>> \o [i \in 1..Len(value) - 1 |-> Item(value[i + 1])] \o <<ListEnd>>
replace_list(lines, section, key, value, changesLines) ==
    LET source == _find_key_block(changesLines, key, section)
        block == _find_key_block(lines, key, section)
    IN  IF block = <<>> THEN lines
        ELSE IF changesLines # NoLines /\ source # <<>>
        THEN Spliced(lines, block, SubSeq(changesLines, source[1], source[2] - 1))
        ELSE Spliced(lines, block, ListBlock(key, value))

(* _update_key; a list for a scalar is TomlValueNotImplementedError.       *)
_update_key(lines, key, current, new, changesLines) ==
    IF current = new THEN lines
    ELSE IF IsList(current) /\ IsList(new)
    THEN replace_list(lines, key[1], key[2], new, changesLines)
    ELSE _replace_scalar_line(lines, key[1], key[2], new)
KeyRaises(current, new) == IsList(new) /\ ~IsList(current)

(* update_toml_file_with_new_config: every key of the file that the        *)
(* changes have; nothing is written when one raised.                       *)
Merged(lines, changes, changesLines) ==
    LET content == read_toml_file(lines)
        keys == SetToSeq(DOMAIN content \cap DOMAIN changes)
        after[n \in 0..Len(keys)] ==
            IF n = 0 THEN lines
            ELSE _update_key(after[n - 1], keys[n], content[keys[n]], changes[keys[n]],
                             changesLines)
    IN  after[Len(keys)]
update(changes, changesLines) ==
    LET content == read_toml_file(toml)
    IN  /\ updates < MaxUpdates
        /\ updates' = updates + 1
        /\ tomlWas' = toml /\ wanted' = changes
        /\ IF \E key \in DOMAIN content \cap DOMAIN changes :
                 KeyRaises(content[key], changes[key])
           THEN updated' = "raised" /\ UNCHANGED toml
           ELSE /\ toml' = Merged(toml, changes, changesLines)
                /\ updated' = IF toml' = toml THEN "nothing" ELSE "written"
update_toml_file_with_new_config(changesLines) ==
    update(read_toml_file(changesLines), changesLines)

(* update_properties: CategoryNotFoundInConfigError unless each category is *)
(* a section of the file.                                                  *)
update_properties(changes) ==
    IF \A key \in DOMAIN changes : \E known \in KeysOf(toml) : known[1] = key[1]
    THEN update(changes, NoLines)
    ELSE /\ updates < MaxUpdates
         /\ updates' = updates + 1 /\ updated' = "raised"
         /\ tomlWas' = toml /\ wanted' = changes
         /\ UNCHANGED toml

TomlNext ==
    \/ \E changes \in Changes : update_properties(changes)
    \/ \E lines \in ChangesFiles : update_toml_file_with_new_config(lines)
-----------------------------------------------------------------------------
TomlTypeOK ==
    /\ Legal(toml)
    /\ updated \in {"no", "written", "nothing", "raised"} /\ updates \in 0..MaxUpdates

(* The sections and keys of a file, each before those that come later.     *)
Order(lines) ==
    LET heads == {i \in 1..Len(lines) : IsKey(lines[i]) \/ lines[i].kind = "section"}
    IN  {<<KeyAt(lines, p[1]), KeyAt(lines, p[2])>> :
            p \in {pair \in heads \X heads : pair[1] <= pair[2]}}
(* The comments that are not inside a list.                                *)
Comments(lines) ==
    {lines[i] : i \in {k \in 1..Len(lines) :
        /\ lines[k].kind = "comment"
        /\ \A l \in 1..k : lines[l].kind = "list" => EndOfList(lines, l) < k}}

(* "This will update only the changed values": afterwards the file reads   *)
(* as before but for the values that were to change, it has the same keys  *)
(* and sections in the same order, and the comments outside the lists.     *)
OnlyTheChangesAreMade ==
    updated \in {"written", "nothing"} =>
        LET was == read_toml_file(tomlWas)
            is == read_toml_file(toml)
            SameKind(key) == IsList(was[key]) = IsList(wanted[key])
        IN  /\ DOMAIN is = DOMAIN was
            /\ \A key \in DOMAIN was :
                 IF key \in DOMAIN wanted /\ SameKind(key) THEN is[key] = wanted[key]
                 ELSE is[key] = was[key]
            /\ Order(toml) = Order(tomlWas)
            /\ Comments(toml) = Comments(tomlWas)
=============================================================================
