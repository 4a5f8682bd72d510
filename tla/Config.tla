------------------------------- MODULE Config -------------------------------
(***************************************************************************)
(* What a server makes of its environment (config/config.go).  A text is   *)
(* what is left of the variable after trimming, "" if it is not set or     *)
(* blank; a number is what the parser returns for it, if it parses.        *)
(***************************************************************************)
EXTENDS Integers

CONSTANTS
    Lower(_),   \* strings.ToLower
    Bytes(_),   \* len
    Second      \* in the units of time.Duration

Timeouts == {"STARTUP_TIMEOUT", "SHUTDOWN_TIMEOUT", "READ_HEADER_TIMEOUT", "READ_TIMEOUT",
             "WRITE_TIMEOUT", "IDLE_TIMEOUT"}

TextDefault ==
    [APP_NAME |-> "solar-inverter-incident-control", APP_ENV |-> "development", PORT |-> "8080",
     DATABASE_DRIVER |-> "postgres", DATABASE_DSN |-> "app.db", REDIS_ADDR |-> "",
     REDIS_PASSWORD |-> "", JWT_SECRET |-> "development-only-change-me", TRUSTED_PROXIES |-> ""]

NumberDefault ==
    [TOKEN_TTL |-> 8 * 60 * 60 * Second, REQUEST_LIMIT |-> 180,
     STARTUP_TIMEOUT |-> 35 * Second, SHUTDOWN_TIMEOUT |-> 10 * Second,
     READ_HEADER_TIMEOUT |-> 5 * Second, READ_TIMEOUT |-> 15 * Second,
     WRITE_TIMEOUT |-> 20 * Second, IDLE_TIMEOUT |-> 60 * Second]

TextNames == DOMAIN TextDefault
NumberNames == DOMAIN NumberDefault

Environments ==
    [text : [TextNames -> STRING], number : [NumberNames -> [parses : BOOLEAN, value : Int]]]

env(e, name) == IF e.text[name] # "" THEN e.text[name] ELSE TextDefault[name]

(* intEnv and durationEnv: what does not parse, or is not positive, is     *)
(* passed over in silence.                                                 *)
numberEnv(e, name) ==
    LET v == e.number[name] IN IF v.parses /\ v.value > 0 THEN v.value ELSE NumberDefault[name]

(* The configuration Load builds, before it is validated.                  *)
Built(e) ==
    [text |-> [n \in TextNames |-> IF n = "DATABASE_DRIVER" THEN Lower(env(e, n)) ELSE env(e, n)],
     number |-> [n \in NumberNames |-> numberEnv(e, n)]]

RedisEnabled(c) == c.text["REDIS_ADDR"] # ""

DriverSupported(c) == c.text["DATABASE_DRIVER"] \in {"postgres", "mysql", "sqlite"}
NamesGiven(c) == c.text["APP_NAME"] # "" /\ c.text["PORT"] # ""
SecretLongEnough(c) == Bytes(c.text["JWT_SECRET"]) >= 16

MinRequestLimit == 10
MaxRequestLimit == 100000
LimitInRange(c) ==
    c.number["REQUEST_LIMIT"] >= MinRequestLimit /\ c.number["REQUEST_LIMIT"] <= MaxRequestLimit

TimeoutsPositive(c) == \A n \in Timeouts : c.number[n] > 0

Validate(c) ==
    /\ DriverSupported(c)
    /\ NamesGiven(c)
    /\ SecretLongEnough(c)
    /\ LimitInRange(c)
    /\ TimeoutsPositive(c)

(* Load returns the configuration it built, or an error and main exits.    *)
Loads(e) == Validate(Built(e))

=============================================================================
