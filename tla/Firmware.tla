------------------------------ MODULE Firmware ------------------------------
(***************************************************************************)
(* The UEFI applications of the repository as the firmware runs them: one    *)
(* application is started and has the machine to itself until it returns.    *)
(* The readers of the configuration, which the boot managers call, are       *)
(* started on their own here; of the 3D boot manager it is the game.         *)
(***************************************************************************)
EXTENDS BootManager2D, Game3D, ParseConfigFile, ConfigFiles, Maze, Wordle, Loader

VARIABLE app   \* the application that was started; never assigned

Apps == {"BootManager2D", "BootManager3D", "ParseConfigFile", "ConfigFiles", "Maze",
         "Wordle", "Loader"}

Managers == {"BootManager2D", "BootManager3D"}

firmwareVars == <<app, mainVars, game3Only, parseVars, configVars, mazeVars, wordleVars, loaderVars>>

\* An application that is not started has an input that does not matter.
OnlyStarted(name, input, inputs) == app = name \/ input = CHOOSE v \in inputs : TRUE

FirmwareInit ==
  /\ app \in Apps
  /\ OnlyStarted("BootManager2D", handles, HandleLists)
  /\ app \notin Managers => Maze = CHOOSE m \in Mazes : TRUE
  /\ app \notin Managers => BootEntriesCount = 1
  /\ MainInit /\ Game3Init
  /\ OnlyStarted("ParseConfigFile", FileData, Files)
  /\ ParseInit
  /\ OnlyStarted("ConfigFiles", mapFile, MapFiles)
  /\ OnlyStarted("ConfigFiles", textureFile, TextureFiles)
  /\ OnlyStarted("ConfigFiles", spriteText, SpriteTexts)
  /\ ConfigInit
  /\ OnlyStarted("Maze", labyrinth, MazeFiles)
  /\ OnlyStarted("Maze", sprite, SpriteFiles)
  /\ OnlyStarted("Maze", BootOptionCount, BootOptionCounts)
  /\ MazeInit
  /\ OnlyStarted("Wordle", words, WordFiles)
  /\ WordleInit
  /\ OnlyStarted("Loader", headers, Kernels)
  /\ LoaderInit

FirmwareNext ==
  \/ app = "BootManager2D" /\ MainNext
     /\ UNCHANGED <<app, game3Only, parseVars, configVars, mazeVars, wordleVars, loaderVars>>
  \/ app = "BootManager3D" /\ Game3Next
     /\ UNCHANGED <<app, gameOnly, mainOnly, parseVars, configVars, mazeVars, wordleVars,
                    loaderVars>>
  \/ app = "ParseConfigFile" /\ ParseNext
     /\ UNCHANGED <<app, mainVars, game3Only, configVars, mazeVars, wordleVars, loaderVars>>
  \/ app = "ConfigFiles" /\ ConfigNext
     /\ UNCHANGED <<app, mainVars, game3Only, parseVars, mazeVars, wordleVars, loaderVars>>
  \/ app = "Maze" /\ MazeNext
     /\ UNCHANGED <<app, mainVars, game3Only, parseVars, configVars, wordleVars, loaderVars>>
  \/ app = "Wordle" /\ WordleNext
     /\ UNCHANGED <<app, mainVars, game3Only, parseVars, configVars, mazeVars, loaderVars>>
  \/ app = "Loader" /\ LoaderNext
     /\ UNCHANGED <<app, mainVars, game3Only, parseVars, configVars, mazeVars, wordleVars>>

\* The boot manager runs on by itself, as in MainSpec.
FirmwareSpec ==
  /\ FirmwareInit
  /\ [][FirmwareNext]_firmwareVars
  /\ WF_mainVars(app = "BootManager2D" /\ Program)
  /\ WF_mainVars(app = "BootManager2D" /\ PlayGame /\ game # "key")
=============================================================================
