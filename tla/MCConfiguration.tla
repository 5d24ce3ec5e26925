-------------------------- MODULE MCConfiguration --------------------------
(* A number with a flag and a text without one. *)
EXTENDS Configuration, TLC

MCNames  == {"PERMIT_PORT", "POSTGRES_DSN"}
MCValues == ("PERMIT_PORT" :> {"", "010", "99999", "http"}) @@ ("POSTGRES_DSN" :> {"", "dsn"})

(* strconv.Atoi is decimal; flag.Int takes the base from the prefix. *)
MCEnvMeans  == ("PERMIT_PORT" :> ("010" :> "10" @@ "99999" :> "99999")) @@ ("POSTGRES_DSN" :> ("dsn" :> "dsn"))
MCFlagMeans == "PERMIT_PORT" :> ("010" :> "8" @@ "99999" :> "99999")
MCDefault   == ("PERMIT_PORT" :> "5000") @@ ("POSTGRES_DSN" :> "")

(* Of the ports above; 99999 is none. *)
MCBindable == {"5000", "10", "8"}
=============================================================================
