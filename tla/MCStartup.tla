----------------------------- MODULE MCStartup -------------------------------
(* Instance of Startup for TLC.                                            *)
EXTENDS Startup

(* Headers, the indentations 0, 2 and 4, numbers of workers that do not    *)
(* fit in a short, and a port that is refused.                             *)
SomeLines == {Section("SERVER"), Section("CLIENT"), Blank, Note(2), Bare(2),
              Entry(0, "Port", 80), Entry(2, "Port", 80),
              Entry(4, "Port", 80), Entry(2, "Port", 65535),
              Entry(2, "Workers", 3), Entry(2, "Workers", 32768),
              Entry(2, "Workers", 65538), Entry(2, "MaxRequestSize", 64)}
=============================================================================
