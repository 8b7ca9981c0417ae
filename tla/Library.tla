------------------------------ MODULE Library ------------------------------
(***************************************************************************)
(* What the rest of the framework stands on, each on its own: the          *)
(* containers, the services of one thread, the block memory with its       *)
(* threads, and the packing of heads.  A behaviour tries one of them.      *)
(***************************************************************************)
EXTENDS Services, MemMgt, Codec

CONSTANTS Seeds                 \* the numbers packed

LibraryInit == ServicesInit /\ MemInit

\* A head, or a text of n bytes, goes from one host to another in a buffer of a size; or a
\* log, with its source or its name, from a thread to the log thread.
Sizes(n) == {s \in {0, 1, n - 1, n, n + 2} : s >= 0}
CodecStep == /\ kind = "codec" /\ c = << >> /\ UNCHANGED <<kind, ref, ops>>
             /\ \/ \E from, to \in BOOLEAN, name \in DOMAIN Heads, seed \in Seeds : \E size \in Sizes(Length(Heads[name][1])) :
                     c' = [name |-> name, seed |-> seed, from |-> from, to |-> to, size |-> size]
                \/ \E from, to \in BOOLEAN, n \in 0 .. MaxText : \E size \in Sizes(n + 2), max \in 1 .. MaxText :
                     c' = [name |-> "text", seed |-> n, from |-> from, to |-> to, size |-> size, max |-> max]
                \/ \E big, named \in BOOLEAN, n \in 0 .. MaxText, id \in 0 .. ByteBase, size \in 0 .. MaxText + 1,
                        width \in {1, enmLogNameLength, enmLogNameLength + 1} :
                     /\ width = 1 \/ named
                     /\ c' = [name |-> "log", big |-> big, named |-> named, seed |-> n, id |-> id, size |-> size, width |-> width]

LibraryNext == \/ (ContainersNext \/ ServicesNext) /\ UNCHANGED memVars
               \/ CodecStep /\ UNCHANGED memVars
               \/ kind = "memory" /\ MemNext /\ UNCHANGED vars
LibrarySpec == LibraryInit /\ [][LibraryNext]_<<vars, memVars>>
-----------------------------------------------------------------------------
\* What is encoded comes back.  What one host packs another unpacks, whatever their
\* byte orders and for both codes that pack a head; a buffer too short, or a packet cut,
\* is refused, and nothing behind the buffer is written.  The same for what is
\* encrypted, for texts and for dates, and for memory a process left behind (Services).
DecodesWhatWasEncoded ==
    /\ kind = "codec" /\ c # << >> =>
          CASE c.name = "text" -> TextSurvives(c.seed, c.from, c.to, c.size, c.max)
            [] c.name = "log" -> LogSurvives(c.big, c.seed, c.named, c.width, c.id, IF c.named THEN 49 ELSE 20, c.size)
            [] OTHER -> HeadSurvives(c.name, c.seed, c.from, c.to, c.size)
    /\ DecryptsWhatWasEncrypted
    /\ TextsComeBack
    /\ DatesComeBack
    /\ ComesBackAfterRestart
=============================================================================
