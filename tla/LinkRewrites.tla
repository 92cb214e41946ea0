---------------------------- MODULE LinkRewrites ---------------------------
(***************************************************************************)
(* The link rewriting of vault-operations/note-mover.ts: what a move makes *)
(* of one link, in another note or in the moved one, whose own folder then *)
(* changes.  Which notes a move rewrites, and what else may happen while   *)
(* it does, is module NoteMover.                                           *)
(***************************************************************************)
EXTENDS LinkTargets

CONSTANTS
  NotePaths, AssetPaths,    \* the paths a vault may hold
  Targets                   \* the targets a link may be written with

VARIABLES
  vault,        \* [notes, assets]: the paths that exist
  link,         \* [source, target, grammar]: one link of the vault
  move          \* the move made, with the vault and link before it

vars == <<vault, link, move>>

(* Notes are called *.md, and only once so; other files are not.  Paths are  *)
(* ordered so that one is preferred to another.                              *)
RewriteParameters ==
  LET Paths == [dir : Seq(STRING), name : Seq(STRING)]
  IN  /\ NotePaths \subseteq Paths /\ AssetPaths \subseteq Paths /\ Targets \subseteq Paths
      /\ \A p \in NotePaths : Extension(p) = Markdown /\ Extension(Stem(p)) # Markdown
      /\ \A p \in AssetPaths : Extension(p) # Markdown /\ p # Nowhere
      /\ DOMAIN PathOrder \subseteq Nat
      /\ \A p \in NotePaths \union AssetPaths : \E i \in DOMAIN PathOrder : PathOrder[i] = p

-----------------------------------------------------------------------------
(* classifyLinkForm: how the target reached the file it resolved to. *)
LinkForm(target, source, resolved) ==
  LET full == WithExtension(target, Extension(resolved))
  IN  CASE full = resolved               -> "absolute"
        [] full # resolved /\ Join(source, full) = resolved -> "relative"
        [] OTHER                         -> "basename"

(* posix.relative(posix.dirname(source), path) *)
Relative(source, path) ==
  LET shared == Max({n \in 0 .. Min({Len(source.dir), Len(path.dir)}) :
                       SubSeq(source.dir, 1, n) = SubSeq(path.dir, 1, n)})
      ups == [i \in 1 .. Len(source.dir) - shared |-> Up]
  IN  [path EXCEPT !.dir = ups \o SubSeq(@, shared + 1, Len(@))]

(* Where a target leads after the move, `after` being the link's own note   *)
(* and the paths that the grammar it resolved by looks among.               *)
Finds(target, after) ==
  IF after.byNote THEN Resolve(target, after.paths, after.source)
  ELSE ResolveAsset(target, after.paths, after.source)

(* buildReplacementTarget: the short form where it leads to the desired     *)
(* file, else the path from the vault's root.                               *)
Replacement(form, absolute, desired, after) ==
  LET short == CASE form = "basename" -> [absolute EXCEPT !.dir = <<>>]
                 [] form = "relative" -> Relative(after.source, absolute)
                 [] OTHER             -> absolute
  IN  IF Finds(short, after) = desired THEN short ELSE absolute

(* rewriteTarget, for a link that led to `before`. *)
Rewritten(l, before, desired, after) ==
  IF before = Nowhere \/ Finds(l.target, after) = desired THEN l.target
  ELSE Replacement(LinkForm(l.target, l.source, before),
                   IF /\ ~after.byNote \/ l.grammar = "markdown"
                      /\ Extension(l.target) = Extension(desired)
                   THEN desired ELSE Stem(desired),
                   desired, after)

RewriteBefore(l, before, byNote, notes, assets, from, to) ==
  Rewritten(l, before, IF before = from THEN to ELSE before,
            [byNote |-> byNote, source |-> IF l.source = from THEN to ELSE l.source,
             paths |-> IF byNote THEN (notes \ {from}) \union {to} ELSE assets])

RewriteTarget(l, notes, assets, from, to) ==
  RewriteBefore(l, LeadsTo(l.target, notes, assets, l.source),
                Resolve(l.target, notes, l.source) # Nowhere, notes, assets, from, to)

-----------------------------------------------------------------------------
NoMove == [from |-> Nowhere]

Init ==
  /\ vault \in [notes : SUBSET NotePaths, assets : SUBSET AssetPaths]
  /\ link \in [source : vault.notes, target : Targets, grammar : {"wikilink", "markdown"}]
  /\ move = NoMove

MoveNote(from, to) ==
  /\ move = NoMove                   \* one move of each vault: bounds the runs
  /\ from \in vault.notes /\ to \notin vault.notes
  /\ vault' = [vault EXCEPT !.notes = (@ \ {from}) \union {to}]
  /\ link' = [link EXCEPT !.target = RewriteTarget(link, vault.notes, vault.assets, from, to),
                          !.source = IF @ = from THEN to ELSE @]
  /\ move' = [from |-> from, to |-> to, vault |-> vault, link |-> link]

Next == \E from, to \in NotePaths : MoveNote(from, to)

Spec == Init /\ [][Next]_vars

-----------------------------------------------------------------------------
(* No file is called as another is without its extension, as LICENSE and    *)
(* LICENSE.txt are: a rewritten target may lack the extension, and the full  *)
(* names are looked through first (README, Findings).                        *)
NamesAreApart(paths) == \A p, q \in paths : Extension(p) # <<>> => Stem(p).name # q.name

(* Links follow a moved note and keep every other target: a link that led   *)
(* to a file before the move leads to that file, under its new path, after  *)
(* it, in whatever form it was written and although other paths with the    *)
(* same name may now be nearer.  A link to a file that is no note is only   *)
(* promised among those files: a note moved to its name takes it over.      *)
LeadsOn(before) ==
  /\ before \in NotePaths =>
       Resolve(link.target, vault.notes, link.source) = (IF before = move.from THEN move.to ELSE before)
  /\ before \in AssetPaths /\ NamesAreApart(vault.assets) =>
       ResolveAsset(link.target, vault.assets, link.source) = before
LinksLeadToTheSameFile ==
  move # NoMove =>
    LeadsOn(LeadsTo(move.link.target, move.vault.notes, move.vault.assets, move.link.source))
=============================================================================
