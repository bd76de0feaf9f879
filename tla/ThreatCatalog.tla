---------------------------- MODULE ThreatCatalog ----------------------------
(* The names of threats: those the system prompt offers the model, the         *)
(* variations of them the code accepts, and the curated severity of each.      *)
(* CVSS scores and the indicators the prompt lists are left out.               *)
EXTENDS Integers, TLC

WebAttacks ==
  {"SQLi", "XSS", "SSTI", "SSRF", "Command Injection", "Path Traversal", "XXE",
   "File Inclusion", "LDAP Injection", "XPath Injection", "NoSQL Injection",
   "Deserialization Attack", "Malicious File Upload", "CSRF", "Open Redirect",
   "HTTP Response Splitting", "CRLF Injection", "HTTP Request Smuggling",
   "Prototype Pollution"}
KnownExploits ==
  {"Log4Shell", "Shellshock", "Spring4Shell", "Apache Struts RCE", "Heartbleed",
   "SMB Exploit"}
Malware ==
  {"RAT C2", "C2 Beaconing", "Reverse Shell", "Webshell", "Ransomware C2",
   "Cryptominer Traffic", "Botnet Communication", "Worm Propagation Scan",
   "Dropper Download", "Malware Payload"}
DataTheft ==
  {"Data Exfiltration", "Credential Theft", "DNS Exfiltration", "Session Hijacking"}
Authentication ==
  {"Brute Force", "SSH Brute Force", "Credential Stuffing", "Password Spraying",
   "Kerberoasting"}
DenialOfService == {"DDoS", "Slowloris", "HTTP Flood", "DNS Amplification", "ReDoS"}
Recon ==
  {"Port Scan", "Directory Enumeration", "Version Fingerprinting",
   "Vulnerability Scanning", "User Enumeration"}
NetworkAttacks ==
  {"DNS Tunneling", "DNS Rebinding", "DNS Poisoning", "TLS Downgrade", "SMTP Relay Abuse"}

Offered == UNION {WebAttacks, KnownExploits, Malware, DataTheft, Authentication,
                  DenialOfService, Recon, NetworkAttacks}

\* Variations, by the name they stand for.
Variations ==
  "SQLi" :> {"SQL Injection", "SQL injection", "sql injection"} @@
  "XSS" :> {"Cross-Site Scripting", "cross-site scripting"} @@
  "SSTI" :> {"Server-Side Template Injection"} @@
  "SSRF" :> {"Server-Side Request Forgery"} @@
  "Command Injection" :> {"Remote Code Execution", "RCE", "OS Command Injection",
                          "command injection"} @@
  "Path Traversal" :> {"Directory Traversal"} @@
  "File Inclusion" :> {"Local File Inclusion", "Remote File Inclusion", "LFI", "RFI"} @@
  "XXE" :> {"XML External Entity"} @@
  "Deserialization Attack" :> {"Insecure Deserialization"} @@
  "HTTP Request Smuggling" :> {"HTTP Smuggling", "Request Smuggling"} @@
  "CRLF Injection" :> {"Header Injection"} @@
  "Log4Shell" :> {"Log4j", "CVE-2021-44228"} @@
  "Shellshock" :> {"CVE-2014-6271"} @@ "Heartbleed" :> {"CVE-2014-0160"} @@
  "Spring4Shell" :> {"CVE-2022-22965"} @@
  "SMB Exploit" :> {"EternalBlue", "MS17-010"} @@
  "Reverse Shell" :> {"Reverse TCP", "Bind Shell"} @@ "Webshell" :> {"Web Shell"} @@
  "RAT C2" :> {"RAT", "Trojan", "Backdoor"} @@ "Ransomware C2" :> {"Ransomware"} @@
  "Cryptominer Traffic" :> {"Crypto Miner", "Cryptojacking"} @@
  "Botnet Communication" :> {"Botnet", "Bot C2"} @@
  "Data Exfiltration" :> {"Exfiltration", "Data Theft", "Data Leak"} @@
  "Credential Stuffing" :> {"Credential Stuffing Attack"} @@
  "Brute Force" :> {"Password Brute Force", "Login Brute Force"} @@
  "DDoS" :> {"SYN Flood", "DoS", "Denial of Service"} @@
  "Port Scan" :> {"Port Scanning", "Network Scan", "Reconnaissance"} @@
  "DNS Tunneling" :> {"DNS Tunnel"} @@ "DNS Exfiltration" :> {"DNS Exfil"} @@
  "TLS Downgrade" :> {"MITM", "Man-in-the-Middle", "SSL Stripping"}

Aliases == UNION {Variations[c] : c \in DOMAIN Variations}

canonical(name) ==
  IF name \in Aliases THEN CHOOSE c \in DOMAIN Variations : name \in Variations[c]
  ELSE name

-------------------------------------------------------------------------------
(* Severity levels, by their number in the code.                               *)

Info == 0
Low == 1
Medium == 2
High == 3
Critical == 4
Levels == Info .. Critical

CriticalThreats ==
  (WebAttacks \cap {"SQLi", "Command Injection", "SSTI", "Deserialization Attack",
                    "File Inclusion", "LDAP Injection", "XPath Injection",
                    "NoSQL Injection", "Malicious File Upload"})
    \cup (KnownExploits \ {"Heartbleed"})
    \cup (Malware \ {"Dropper Download", "Cryptominer Traffic"})
    \cup {"Botnet Host", "Data Exfiltration", "Credential Theft", "DNS Amplification"}
HighThreats ==
  {"SSRF", "XXE", "Path Traversal", "HTTP Request Smuggling", "Prototype Pollution",
   "Heartbleed", "Spam Bot", "Dropper Download", "Cryptominer Traffic",
   "DNS Exfiltration", "Session Hijacking", "DNS Tunneling", "DNS Poisoning",
   "TLS Downgrade", "TCP Evasion", "Malicious TLS Client"}
    \cup Authentication \cup (DenialOfService \ {"DNS Amplification"})
MediumThreats ==
  {"CSRF", "XSS", "HTTP Response Splitting", "CRLF Injection", "Open Redirect",
   "Suspicious Transfer", "SMTP Relay Abuse", "DNS Rebinding", "IP Spoofing",
   "Suspicious TLS"} \cup Recon

Curated == UNION {CriticalThreats, HighThreats, MediumThreats}

\* A threat the table does not know is Medium.
severity_for_threat(type) ==
  CASE type \in CriticalThreats -> Critical
    [] type \in HighThreats -> High
    [] OTHER -> Medium

\* The words for a severity, in any case; another word leaves the curated level.
Words == [w \in {"critical", "high", "medium", "low", "info", "informational", "none"} |->
  CASE w = "critical" -> Critical [] w = "high" -> High [] w = "medium" -> Medium
    [] w = "low" -> Low [] OTHER -> Info]

\* Only a lower level than the curated one is taken over.
resolve_severity(type, said) ==
  IF said \in DOMAIN Words /\ Words[said] < severity_for_threat(type)
    THEN Words[said] ELSE severity_for_threat(type)
===============================================================================
