---------------------------- MODULE LinkTargets ----------------------------
(***************************************************************************)
(* obsidian-markdown/links.ts: where a link's target leads.  A path, and a *)
(* target as it is written in a link, is a sequence of folder names and    *)
(* the dot-separated parts of a file name, so [[b.x]] and b.x.md differ as *)
(* they do in the code.  Letter case and percent-encoding are left out;    *)
(* so are the texts that are no links, which extraction skips.             *)
(***************************************************************************)
EXTENDS Naturals, Sequences, SequencesExt, FiniteSetsExt

CONSTANT PathOrder    \* every path of the instance, by length, then by bytes

Nowhere == [dir |-> <<>>, name |-> <<>>]
Up == ".."
Markdown == <<"md">>

Extension(path) == IF Len(path.name) > 1 THEN <<Last(path.name)>> ELSE <<>>
Stem(path) == IF Len(path.name) > 1 THEN [path EXCEPT !.name = Front(@)] ELSE path
WithExtension(path, extension) ==
  IF Extension(path) = extension THEN path ELSE [path EXCEPT !.name = @ \o extension]

(* posix.join(posix.dirname(source), target): ".." leaves a folder, and     *)
(* stays where there is none to leave.                                     *)
Join(source, target) ==
  LET Walk(folders, segment) ==
        IF segment = Up /\ folders # <<>> /\ Last(folders) # Up
        THEN Front(folders) ELSE Append(folders, segment)
  IN  [target EXCEPT !.dir = FoldLeft(Walk, source.dir, @)]

(* candidatePath.endsWith("/" + target), and the path itself. *)
EndsIn(path, target) == path.name = target.name /\ IsSuffix(target.dir, path.dir)

(* shortestOf *)
Shortest(paths) ==
  IF paths = {} THEN Nowhere
  ELSE PathOrder[Min({i \in DOMAIN PathOrder : PathOrder[i] \in paths})]

(* The first of the alternatives, in order, that leads somewhere. *)
FirstOf(alternatives) ==
  LET found == {i \in DOMAIN alternatives : alternatives[i] # Nowhere}
  IN  IF found = {} THEN Nowhere ELSE alternatives[Min(found)]
IfIn(path, paths) == IF path \in paths THEN path ELSE Nowhere

(* links.resolve: from the vault's root, from the source, by file name.     *)
ResolveNote(note, notes, source) ==
  FirstOf(<<IfIn(note, notes), IfIn(Join(source, note), notes),
            Shortest({p \in notes : EndsIn(p, note)})>>)
Resolve(target, notes, source) == ResolveNote(WithExtension(target, Markdown), notes, source)

(* links.resolveAsset and the index's resolveNonMarkdownFile: the tiers on  *)
(* the full file name, then those on the name without its extension.        *)
ResolveFrom(target, here, assets) ==
  LET stems(path) == {p \in assets : Stem(p) = path}
      loose == {p \in assets : IF target.dir # <<>> THEN EndsIn(Stem(p), target)
                               ELSE Stem(p).name = target.name}
  IN  FirstOf(<<IfIn(target, assets), IfIn(here, assets),
                Shortest({p \in assets : EndsIn(p, target)}),
                Shortest(stems(target)), Shortest(stems(here)), Shortest(loose)>>)
ResolveAsset(target, assets, source) == ResolveFrom(target, Join(source, target), assets)

(* Where a link leads: to a note before any other file. *)
LeadsTo(target, notes, assets, source) ==
  FirstOf(<<Resolve(target, notes, source), ResolveAsset(target, assets, source)>>)
=============================================================================
