--------------------------- MODULE MCFileTransfer ---------------------------
EXTENDS FileTransfer

Files(sizes, ends) ==
  [n |-> Len(sizes), size |-> [f \in 0..Len(sizes)-1 |-> sizes[f+1]], ends |-> ends]

\* One file of eight chunks, and one of three of which the second reads "END"; two
\* files, of two chunks and of three; and three, of which one reads "END" and one is
\* an exact multiple of SIZE.
MCJobs == { Files(<<7 * SIZE + 1>>, {}),
            Files(<<2 * SIZE + 1>>, {<<0, 1>>}),
            Files(<<SIZE + 1, 2 * SIZE + 1>>, {}),
            Files(<<SIZE + 1, 1, 2 * SIZE>>, {<<1, 0>>}) }

\* Two files of one short chunk.
ShortFiles == { Files(<<1, 1>>, {}) }
=============================================================================
