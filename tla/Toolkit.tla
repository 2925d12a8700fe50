------------------------------- MODULE Toolkit -------------------------------
(***************************************************************************)
(* The build tool (toolkit/main.cpp): it fetches an archiver and a package *)
(* with compiler, cmake and libraries, unpacks it, and builds, tests and   *)
(* installs the project with it.  Whatever a run leaves on the disk when   *)
(* it is stopped, when a download breaks off or when a program it started  *)
(* fails, the next run starts from.  Hashes are the contents they are      *)
(* made of.  A program that cannot be started or exits with an error code  *)
(* has, for QProcess::exitStatus(), exited normally; only a crash ends the *)
(* run.                                                                    *)
(***************************************************************************)
EXTENDS Naturals

CONSTANTS
  Versions,  \* of the package
  Absent,    \* no such file
  Part,      \* a file of which a part is there, or an error page
  MaxRuns,   \* bound: times the tool is started
  MaxUploads \* bound: files put on the server

ASSUME ToolkitAssumption ==
  /\ Absent \notin Versions /\ Part \notin Versions /\ Absent # Part
  /\ MaxRuns \in Nat /\ MaxUploads \in Nat

(* bin/qmake.exe, which is looked for, and all that is not. *)
Files == {"qmake", "others"}

VARIABLES
  stage,      \* what the run at hand does next, "off" if there is none
  ar7za,      \* 7za.exe: "absent", "part" or "whole"
  package,    \* package.7z
  package_dir,\* what is unpacked of each of Files
  build,      \* the build directory: versions of the tools that wrote in it, and
              \* that which made the program
  installed,  \* the installation: the program and the libraries beside it
  want,       \* md5package_real
  arriving,   \* the package a download brings
  dropbox,    \* package.7z and package.md5 as they are on the server
  runs,       \* times started (bound)
  uploads     \* files put on the server (bound)

disk    == <<ar7za, package, package_dir, build, installed>>
online  == <<dropbox, uploads>>
toolkit == <<stage, disk, want, arriving, online, runs>>

NoBuild == [tools |-> {}, program |-> Absent]

ToolkitInit ==
  /\ stage = "off" /\ runs = 0 /\ uploads = 0
  /\ ar7za = "absent" /\ package = Absent
  /\ package_dir = [f \in Files |-> Absent]
  /\ build = NoBuild
  /\ installed = [program |-> Absent, libraries |-> Absent]
  /\ want = Absent /\ arriving = Absent
  /\ dropbox \in [package : Versions, md5 : Versions]

Launch ==
  /\ stage = "off" /\ runs < MaxRuns
  /\ runs' = runs + 1 /\ stage' = "archiver"
  /\ UNCHANGED <<disk, want, arriving, online>>

(* qFatal(), for whatever reason, or the user stops it. *)
Abort ==
  /\ stage # "off"
  /\ stage' = "off"
  /\ UNCHANGED <<disk, want, arriving, online, runs>>

----------------------------------------------------------------------------
(* A Downloader empties its file at once, writes what comes, and is done   *)
(* when the reply is finished, with or without an error.                   *)

DownloadArchiver ==
  /\ stage = "archiver"
  /\ IF ar7za = "absent" THEN ar7za' = "part" /\ stage' = "archiver arriving"
     ELSE UNCHANGED ar7za /\ stage' = "md5"
  /\ UNCHANGED <<package, package_dir, build, installed, want, arriving, online, runs>>

ArchiverArrives ==
  /\ stage = "archiver arriving"
  /\ ar7za' \in {"part", "whole"} /\ stage' = "md5"
  /\ UNCHANGED <<package, package_dir, build, installed, want, arriving, online, runs>>

(* The hash, or two words that are none; anything else ends the run. *)
DownloadMd5 ==
  /\ stage = "md5"
  /\ want' \in {dropbox.md5, Part} /\ stage' = "check"
  /\ UNCHANGED <<disk, arriving, online, runs>>

Checked == IF package \in Versions /\ package = want THEN "unpack" ELSE "remove package"

CheckPackage ==
  /\ stage = "check"
  /\ stage' = Checked
  /\ UNCHANGED <<disk, want, arriving, online, runs>>

(* removeRecursively() may fail half-way, which ends the run.  Old objects  *)
(* must go with the old compiler.                                          *)
RemovePackageDir ==
  /\ stage = "remove package"
  /\ \E gone \in SUBSET Files :
       /\ package_dir' = [f \in Files |-> IF f \in gone THEN Absent ELSE package_dir[f]]
       /\ stage' = IF gone = Files THEN "remove build" ELSE "off"
  /\ UNCHANGED <<ar7za, package, build, installed, want, arriving, online, runs>>

(* Mutant: the build directory stays. *)
RemoveBuildNever ==
  /\ stage = "remove build" /\ stage' = "download"
  /\ UNCHANGED <<disk, want, arriving, online, runs>>

RemoveBuildDir ==
  /\ stage = "remove build"
  /\ \/ build' = NoBuild /\ stage' = "download"
     \/ build' \in {build, [build EXCEPT !.program = Absent]} /\ stage' = "off"
  /\ UNCHANGED <<ar7za, package, package_dir, installed, want, arriving, online, runs>>

DownloadPackage ==
  /\ stage = "download"
  /\ package' = Part /\ arriving' = dropbox.package /\ stage' = "package arriving"
  /\ UNCHANGED <<ar7za, package_dir, build, installed, want, online, runs>>

PackageArrives ==
  /\ stage = "package arriving"
  /\ package' \in {arriving, Part}
  /\ stage' = IF package' = want /\ want # Part THEN "unpack" ELSE "off"
  /\ UNCHANGED <<ar7za, package_dir, build, installed, want, arriving, online, runs>>

----------------------------------------------------------------------------
Unpack ==
  /\ stage = "unpack"
  /\ stage' = IF package_dir["qmake"] # Absent THEN "cmake" ELSE "unpacking"
  /\ UNCHANGED <<disk, want, arriving, online, runs>>

(* 7za, if there is one, writes the files in any order; before it would    *)
(* overwrite one it asks, and nobody answers.  It may be stopped in one.   *)
UnpackFile(f) ==
  /\ stage = "unpacking" /\ ar7za = "whole" /\ package_dir[f] = Absent
  /\ package_dir' = [package_dir EXCEPT ![f] = package]
  /\ UNCHANGED <<stage, ar7za, package, build, installed, want, arriving, online, runs>>

UnpackingEnds ==
  /\ stage = "unpacking"
  /\ \/ UNCHANGED package_dir
     \/ /\ ar7za = "whole"
        /\ \E f \in Files : /\ package_dir[f] = Absent
                            /\ package_dir' = [package_dir EXCEPT ![f] = Part]
  /\ stage' \in {"cmake", "off"}
  /\ UNCHANGED <<ar7za, package, build, installed, want, arriving, online, runs>>

(* cmake, make, the libraries: whichever version they are, if they run. *)
Tools == package_dir["others"]

Runnable == Tools \in Versions

Used == [build EXCEPT !.tools = @ \cup {Tools}]

(* A program succeeds, does some of its work and fails, or cannot run.     *)
Configure ==
  /\ stage = "cmake" /\ stage' = "make"
  /\ \/ Runnable /\ build' = Used
     \/ UNCHANGED build
  /\ UNCHANGED <<ar7za, package, package_dir, installed, want, arriving, online, runs>>

Make ==
  /\ stage = "make" /\ stage' = "test"
  /\ \/ Runnable /\ build.tools # {} /\ build' \in {Used, [Used EXCEPT !.program = Tools]}
     \/ UNCHANGED build
  /\ UNCHANGED <<ar7za, package, package_dir, installed, want, arriving, online, runs>>

Test ==
  /\ stage = "test" /\ stage' = "install"
  /\ UNCHANGED <<disk, want, arriving, online, runs>>

(* "make install" makes first what is not up to date. *)
Install ==
  /\ stage = "install" /\ stage' = "copy"
  /\ \/ /\ Runnable /\ build.tools # {}
        /\ build' = [Used EXCEPT !.program = Tools]
        /\ installed' = [installed EXCEPT !.program = Tools]
     \/ UNCHANGED <<build, installed>>
  /\ UNCHANGED <<ar7za, package, package_dir, want, arriving, online, runs>>

(* QFile::copy() never replaces a file. *)
CopyLibraries ==
  /\ stage = "copy" /\ stage' = "off"
  /\ installed' = IF installed.libraries = Absent
                  THEN [installed EXCEPT !.libraries = Tools] ELSE installed
  /\ UNCHANGED <<ar7za, package, package_dir, build, want, arriving, online, runs>>

(* A new package goes up as two files. *)
Upload(file, v) ==
  /\ uploads < MaxUploads /\ uploads' = uploads + 1
  /\ dropbox[file] # v /\ dropbox' = [dropbox EXCEPT ![file] = v]
  /\ UNCHANGED <<stage, disk, want, arriving, runs>>

ToolkitNext ==
  \/ Launch \/ Abort
  \/ DownloadArchiver \/ ArchiverArrives \/ DownloadMd5 \/ CheckPackage
  \/ RemovePackageDir \/ RemoveBuildDir \/ DownloadPackage \/ PackageArrives
  \/ Unpack \/ (\E f \in Files : UnpackFile(f)) \/ UnpackingEnds
  \/ Configure \/ Make \/ Test \/ Install \/ CopyLibraries
  \/ \E file \in {"package", "md5"}, v \in Versions : Upload(file, v)

ToolkitSpec == ToolkitInit /\ [][ToolkitNext]_toolkit

----------------------------------------------------------------------------
(* Whatever earlier runs have left, compilers and libraries of two versions *)
(* of the package never meet: all that is unpacked, and all that the build  *)
(* directory was written with, is of the version of package.7z, and a run  *)
(* that goes on to build has checked that this is the published one.       *)
OneToolchain ==
  /\ \A f \in Files : package_dir[f] \in {package, Part, Absent}
  /\ build.tools \subseteq {package} /\ build.program \in {package, Absent}
  /\ stage \in {"unpack", "unpacking", "cmake", "make", "test", "install", "copy"} =>
       package = want /\ package \in Versions
=============================================================================
