---------------------------- MODULE PasswordFile ----------------------------
(***************************************************************************)
(* load_password: which password the server runs with, and what of it      *)
(* survives a process that ends at any point of its start.  The password   *)
(* is configured, or saved in the file, or new.  The machine itself stays  *)
(* up: what was written to the file stays there.                           *)
(***************************************************************************)
EXTENDS Integers

CONSTANTS
    Passwords,  \* what secrets.token_urlsafe gives, each of them once
    Settings,   \* what FWUPD_WEBUI_PASSWORD can be, None when it is not set
    None,       \* no password, no file
    Blank       \* the file is there and empty

ASSUME PasswordAssumption ==
    /\ None \notin Passwords
    /\ Blank \notin Passwords \cup Settings
    /\ Settings \cap Passwords = {}
    /\ None # Blank

VARIABLES
    step,       \* where the start of the process is
    setting,    \* the password configured for this process
    file,       \* what the password file holds
    password,   \* the one this process has made up or settled on
    logged,     \* the passwords in the log
    drawn,      \* the passwords that were ever drawn
    settled     \* the password in the file while a server last ran with it

loadVars == <<step, setting, file, password, logged, drawn, settled>>

LoadInit ==
    /\ step = "down"
    /\ setting = None
    /\ file = None
    /\ password = None
    /\ logged = {}
    /\ drawn = {}
    /\ settled = None

LoadTypeOK ==
    /\ step \in {"down", "reading", "removing", "creating", "writing", "logging", "serving"}
    /\ setting \in Settings \cup {None}
    /\ file \in Passwords \cup {None, Blank}
    /\ password \in Passwords \cup Settings \cup {None}
    /\ logged \subseteq drawn
    /\ drawn \subseteq Passwords
    /\ settled \in Passwords \cup {None}

-----------------------------------------------------------------------------

(* load_password returns p, and the server runs with it.                   *)
Serve(p) ==
    /\ step' = "serving"
    /\ password' = p
    /\ settled' = IF file = p THEN p ELSE settled

(* main: the password of the environment, or a look at the file.           *)
Launch ==
    /\ step = "down"
    /\ setting' \in Settings
    /\ IF setting' # None
       THEN Serve(setting')
       ELSE step' = "reading" /\ UNCHANGED <<password, settled>>
    /\ UNCHANGED <<file, logged, drawn>>

(* Mutant: an empty password is as good as any.                            *)
UseSaved_Blank ==
    /\ step = "reading"
    /\ file # None
    /\ Serve(file)
    /\ UNCHANGED <<setting, file, logged, drawn>>

(* Mutant: a saved password is saved again at every start.                 *)
UseSaved_SavedAgain ==
    /\ step = "reading"
    /\ file \notin {None, Blank}
    /\ password' = file
    /\ step' = "removing"
    /\ UNCHANGED <<setting, file, logged, drawn, settled>>

UseSaved ==
    /\ step = "reading"
    /\ file \notin {None, Blank}
    /\ Serve(file)
    /\ UNCHANGED <<setting, file, logged, drawn>>

(* There is nothing in the file, or it cannot be read; either way a new    *)
(* password is drawn.  In the second case `settled` is given up.           *)
Draw ==
    /\ step = "reading"
    /\ \E p \in Passwords \ drawn :
        /\ password' = p
        /\ drawn' = drawn \cup {p}
    /\ \/ file \in {None, Blank} /\ UNCHANGED settled
       \/ file # None /\ settled' = None
    /\ step' = "removing"
    /\ UNCHANGED <<setting, file, logged>>

(* Mutant: a failure to save is all that is logged.                        *)
SavingFails_Silently ==
    /\ step \in {"removing", "creating", "writing"}
    /\ Serve(password)
    /\ UNCHANGED <<setting, file, logged, drawn>>

(* mkdir, unlink, open or write raises an OSError.                         *)
SavingFails ==
    /\ step \in {"removing", "creating", "writing"}
    /\ step' = "logging"
    /\ UNCHANGED <<setting, file, password, logged, drawn, settled>>

(* _create_password_file, in the steps that a crash can come between.      *)
Unlink ==
    /\ step = "removing"
    /\ file' = None
    /\ step' = "creating"
    /\ UNCHANGED <<setting, password, logged, drawn, settled>>

CreateFile ==
    /\ step = "creating"
    /\ file' = Blank
    /\ step' = "writing"
    /\ UNCHANGED <<setting, password, logged, drawn, settled>>

WritePassword ==
    /\ step = "writing"
    /\ file' = password
    /\ step' = "logging"
    /\ UNCHANGED <<setting, password, logged, drawn, settled>>

LogPassword ==
    /\ step = "logging"
    /\ logged' = logged \cup {password}
    /\ Serve(password)
    /\ UNCHANGED <<setting, file, drawn>>

(* The process ends, at any point.                                         *)
Exit ==
    /\ step # "down"
    /\ step' = "down"
    /\ setting' = None
    /\ password' = None
    /\ UNCHANGED <<file, logged, drawn, settled>>

LoadNext ==
    \/ Launch
    \/ UseSaved
    \/ Draw
    \/ Unlink
    \/ CreateFile
    \/ WritePassword
    \/ SavingFails
    \/ LogPassword
    \/ Exit

LoadSpec == LoadInit /\ [][LoadNext]_loadVars

-----------------------------------------------------------------------------
(***************************************************************************)
(* Properties                                                              *)
(***************************************************************************)

(* auth.py: "There is no way to run without a password", also not after a  *)
(* start that ended between creating the file and writing it.              *)
NeverWithoutPassword == step = "serving" => password \in Passwords \cup (Settings \ {None})

(* Whoever runs the server can find out the password it made up: it is in  *)
(* the log or in the file, whichever step a crash or an error skipped.     *)
PasswordCanBeFound ==
    step = "serving" /\ setting = None => password \in logged \cup {file}

(* A password that a server has run with and that is saved is the password *)
(* of every later server, unless one is configured or the file cannot be   *)
(* read, however many starts end halfway.                                  *)
SavedPasswordStays ==
    step = "serving" /\ setting = None /\ settled # None => password = settled

(***************************************************************************)
(* A claim that does not hold.                                             *)
(***************************************************************************)

(* README.md: "A generated password is written to the log once"; not after *)
(* a process that ended between saving and logging it.                     *)
GeneratedIsLogged == step = "serving" /\ setting = None => password \in logged
=============================================================================
