----------------------------- MODULE MCFtlThreads -----------------------------
(***************************************************************************)
(* Instances of FtlThreads for TLC.  Pages of two sub-pages of two sectors.*)
(***************************************************************************)
EXTENDS FtlThreads, TLC

CONSTANTS alice, bob

Command(kind, lpn, uid, sectors) ==
    [kind |-> kind, lpn |-> lpn, uid |-> uid, sectors |-> sectors]

First  == <<0, 0>>
Third  == <<1, 0>>

\* Parts of two pages that one buffer holds, and reads of one of the pages.
Few ==
    {Command("write", 1, alice, {First}),
     Command("write", 2, alice, {Third}),
     Command("read", 1, alice, Sectors)}

\* Whole and partial writes that overlap, parts of two pages that one buffer
\* holds, and reads of one of the pages.
Mixed == Few \cup {Command("write", 1, alice, Sectors)}

\* Each user has a page of their own.
OwnPages ==
    {Command("write", 1, alice, {First}),
     Command("write", 2, bob, {First}),
     Command("read", 1, alice, {First})}

Symmetric == Permutations(Threads)
=============================================================================
