---------------------------- MODULE MCInFlight ------------------------------
(* Small instances of InFlight: the tasks and the class of their requests. *)
EXTENDS InFlight, TLC

CONSTANTS anon1, anon2, reader, writer, exporter, loadwriter, loadreader, loadexporter

Kind(a, read, l, p, d) ==
    [anonymous |-> a, read |-> read, loadtest |-> l, plain |-> p, download |-> d]

(* Anonymous reads, a signed-in read, write and file.csv download, and the
   load generator's write (which is refused), plain read and download. *)
MCClass ==
    [r \in Requests |->
        CASE r \in {anon1, anon2} -> Kind(TRUE, TRUE, FALSE, TRUE, FALSE)
          [] r = reader           -> Kind(FALSE, TRUE, FALSE, TRUE, FALSE)
          [] r = writer           -> Kind(FALSE, FALSE, FALSE, FALSE, FALSE)
          [] r = exporter         -> Kind(FALSE, TRUE, FALSE, FALSE, TRUE)
          [] r = loadwriter       -> Kind(FALSE, FALSE, TRUE, FALSE, FALSE)
          [] r = loadreader       -> Kind(FALSE, TRUE, TRUE, TRUE, FALSE)
          [] r = loadexporter     -> Kind(FALSE, TRUE, TRUE, FALSE, TRUE)]

(* The anonymous reads come from two addresses, named like the reads; the
   rest come from one subject. *)
MCCaller ==
    [r \in Requests |-> IF r \in {anon1, anon2} THEN r ELSE "subject"]

MCCallers == {anon1, anon2, "subject"}

(* The anonymous reads, with their addresses, change places. *)
Symmetric == Permutations({anon1, anon2})

=============================================================================
