------------------------------ MODULE SqliData ------------------------------
(* The tables of libinjection_sqli_data.h: the parser of each character and *)
(* the class of each keyword.  The words are all there, by class, in the    *)
(* order of the file; of its fingerprints, which follow the symbols, the    *)
(* ones that the model's inputs can have.                                   *)
EXTENDS Integers, Sequences, SequencesExt, Text

NBSP == "0xa0"
CTRL == "0x01"   \* a control character that is not a white one for char_is_white

Blanks == {NUL, CTRL, " ", "\n", NBSP}
Digits == {"0", "1", "2", "3", "4", "5", "6", "7", "8", "9"}
HexDigits == Digits \union {"A", "B", "C", "D", "E", "F", "a", "b", "c", "d", "e", "f"}

\* char_parse_map: the characters of each parser, below 128 and from 128 on;
\* small letters have the parsers of the capital ones.
AsciiParsers ==
    [white |-> Blanks \ {NBSP}, operator1 |-> {"%", "+", "^", "~"},
     operator2 |-> {"!", "&", "*", ":", "<", "=", ">", "|"},
     char |-> {"(", ")", ",", ";", "{", "}"}, other |-> {"?", "]"},
     string |-> {"\"", "'"}, tick |-> {TICK}, number |-> Digits \union {"."},
     hash |-> {"#"}, money |-> {"$"}, dash |-> {"-"}, slash |-> {"/"}, var |-> {"@"},
     bword |-> {"["}, backslash |-> {"\\"}, bstring |-> {"B"}, estring |-> {"E"},
     nqstring |-> {"N"}, qstring |-> {"Q"}, ustring |-> {"U"}, xstring |-> {"X"},
     word |-> (Capitals \ {"B", "E", "N", "Q", "U", "X"}) \union {"_"}]
HighParsers(parser) == CASE parser = "white" -> {NBSP} [] parser = "word" -> {HIGH} [] OTHER -> {}
Parsed(parser) == AsciiParsers[parser] \union HighParsers(parser)
char_parse_map ==
    [c \in UNION {Parsed(parser) : parser \in DOMAIN AsciiParsers} |->
        CHOOSE parser \in DOMAIN AsciiParsers : c \in Parsed(parser)]
Char == Letters \union DOMAIN char_parse_map

-----------------------------------------------------------------------------
(* The keywords.                                                           *)

SYMBOLS ==
    "&" :> {"&&"}
 @@ "o" :> {"!!", "!<", "!=", "!>", "%=", "&=", "*=", "+=", "-=", "/="}

\* From :: to CONVERT.
WORDS_1 ==
    "&" :> {"AND"}
 @@ "1" :> {"BINARY_DOUBLE_INFINITY", "BINARY_DOUBLE_NAN",
       "BINARY_FLOAT_INFINITY", "BINARY_FLOAT_NAN"}
 @@ "A" :> {"COLLATE"}
 @@ "E" :> {"CASE"}
 @@ "T" :> {"BEGIN", "BEGIN DECLARE", "BEGIN GOTO", "BEGIN TRY",
       "BEGIN TRY DECLARE", "CALL"}
 @@ "f" :> {"ABS", "ACOS", "ADDDATE", "ADDTIME", "AES_DECRYPT", "AES_ENCRYPT",
       "AGE", "ANY", "APPLOCK_MODE", "APPLOCK_TEST", "APP_NAME", "ARRAY_AGG",
       "ARRAY_CAT", "ARRAY_DIM", "ARRAY_FILL", "ARRAY_LENGTH", "ARRAY_LOWER",
       "ARRAY_NDIMS", "ARRAY_PREPEND", "ARRAY_TO_JSON", "ARRAY_TO_STRING",
       "ARRAY_UPPER", "ASCII", "ASIN", "ASSEMBLYPROPERTY", "ASYMKEY_ID",
       "ATAN", "ATAN2", "AVG", "BENCHMARK", "BIN", "BINBINARY", "BIT_AND",
       "BIT_COUNT", "BIT_LENGTH", "BIT_OR", "BIT_XOR", "BOOL_AND", "BOOL_OR",
       "BTRIM", "CAST", "CBOOL", "CBRT", "CBYTE", "CCUR", "CDATE", "CDBL",
       "CEIL", "CEILING", "CERTENCODED", "CERTPRIVATEKEY", "CERT_ID",
       "CERT_PROPERTY", "CHANGES", "CHAR", "CHARACTER_LENGTH", "CHARINDEX",
       "CHARSET", "CHAR_LENGTH", "CHDIR", "CHDRIVE", "CHECKSUM_AGG",
       "CHOOSE", "CHR", "CINT", "CLNG", "CLOCK_TIMESTAMP", "COALESCE",
       "COERCIBILITY", "COLLATION", "COLLATIONPROPERTY", "COLUMNPROPERTY",
       "COLUMNS_UPDATED", "COL_LENGTH", "COL_NAME", "COMPRESS", "CONCAT",
       "CONCAT_WS", "CONNECTION_ID", "CONV", "CONVERT"}
 @@ "k" :> {"ABORT", "ACCESSIBLE", "AGAINST", "ALL_USERS", "ALTER",
       "ALTER DOMAIN", "ALTER TABLE", "ANALYZE", "AS", "ASC", "ASENSITIVE",
       "AT TIME ZONE", "AUTOINCREMENT", "BEFORE", "BLOB", "BOTH", "CASCADE",
       "CHANGE", "COLUMN", "CONDITION", "CONSTRAINT", "CONTINUE"}
 @@ "n" :> {"AT TIME", "BY", "CHECK"}
 @@ "o" :> {"::", ":=", "<<", "<=", "<>", "<@", ">=", ">>", "@>", "BETWEEN"}
 @@ "t" :> {"ANYARRAY", "ANYELEMENT", "ANYNONARRY", "BIGINT", "BIGSERIAL",
       "BINARY", "BOOLEAN", "BYTEA", "CHARACTER", "CHARACTER VARYING"}

\* From CONVERT_FROM to EXECUTE AS.
WORDS_2 ==
    "E" :> {"CREATE", "EXECUTE AS"}
 @@ "T" :> {"CREATE OR REPLACE", "DECLARE", "DELETE", "DROP", "EXEC", "EXECUTE"}
 @@ "U" :> {"EXCEPT"}
 @@ "f" :> {"CONVERT_FROM", "CONVERT_TO", "CONVERT_TZ", "COS", "COT", "COUNT",
       "CRC32", "CSNG", "CTXSYS.DRITHSX.SN", "CUME_DIST", "CURDATE",
       "CURDIR", "CURRENTUSER", "CURRENT_DATABASE", "CURRENT_QUERY",
       "CURRENT_SCHEMA", "CURRENT_SCHEMAS", "CURRENT_SETTING", "CURRVAL",
       "CURSOR_STATUS", "CURTIME", "CVAR", "DATABASEPROPERTYEX",
       "DATABASE_PRINCIPAL_ID", "DATALENGTH", "DATE", "DATEADD", "DATEDIFF",
       "DATEFROMPARTS", "DATENAME", "DATEPART", "DATESERIAL",
       "DATETIME2FROMPARTS", "DATETIMEFROMPARTS", "DATETIMEOFFSETFROMPARTS",
       "DATEVALUE", "DATE_ADD", "DATE_FORMAT", "DATE_PART", "DATE_SUB",
       "DATE_TRUNC", "DAVG", "DAY", "DAYNAME", "DAYOFMONTH", "DAYOFWEEK",
       "DAYOFYEAR", "DBMS_LOCK.SLEEP", "DBMS_PIPE.RECEIVE_MESSAGE", "DB_ID",
       "DB_NAME", "DCOUNT", "DECODE", "DECRYPTBYASMKEY", "DECRYPTBYCERT",
       "DECRYPTBYKEY", "DECRYPTBYKEYAUTOCERT", "DECRYPTBYPASSPHRASE",
       "DEGREES", "DENSE_RANK", "DES_DECRYPT", "DES_ENCRYPT", "DFIRST",
       "DIFFERENCE", "DLAST", "DLOOKUP", "DMAX", "DMIN", "DSUM", "ELT",
       "ENCODE", "ENCRYPT", "ENCRYPTBYASMKEY", "ENCRYPTBYCERT",
       "ENCRYPTBYKEY", "ENCRYPTBYPASSPHRASE", "ENUM_FIRST", "ENUM_LAST",
       "ENUM_RANGE", "EOMONTH", "EVENTDATA"}
 @@ "k" :> {"COUNT_BIG", "CROSS JOIN", "CURSOR", "DATABASES", "DAY_HOUR",
       "DAY_MICROSECOND", "DAY_MINUTE", "DAY_SECOND", "DEC", "DEFAULT",
       "DELAY", "DELAYED", "DESC", "DESCRIBE", "DETERMINISTIC", "DISTINCT",
       "DISTINCTROW", "EACH", "ELSE", "ELSEIF", "ENCLOSED", "ESCAPED"}
 @@ "n" :> {"CREATE OR", "CROSS", "DATABASE", "DO", "DUAL"}
 @@ "o" :> {"DIV", "EQV"}
 @@ "t" :> {"CSTRING", "DECIMAL", "DOUBLE", "DOUBLE PRECISION"}
 @@ "v" :> {"CURRENT DATE", "CURRENT DEGREE", "CURRENT FUNCTION",
       "CURRENT FUNCTION PATH", "CURRENT PATH", "CURRENT SCHEMA",
       "CURRENT SERVER", "CURRENT TIME", "CURRENT TIMEZONE", "CURRENT_DATE",
       "CURRENT_PATH", "CURRENT_SERVER", "CURRENT_TIME", "CURRENT_TIMESTAMP",
       "CURRENT_TIMEZONE", "CURRENT_USER"}

\* From EXECUTE AS LOGIN to IS NOT DISTINCT FROM.
WORDS_3 ==
    "1" :> {"FALSE"}
 @@ "B" :> {"GROUP BY", "HAVING"}
 @@ "E" :> {"EXECUTE AS LOGIN", "INSERT", "INSERT DELAYED",
       "INSERT HIGH_PRIORITY", "INSERT IGNORE", "INSERT LOW_PRIORITY"}
 @@ "T" :> {"GO", "GOTO", "HANDLER", "INSERT DELAYED INTO",
       "INSERT HIGH_PRIORITY INTO", "INSERT IGNORE INTO", "INSERT INTO",
       "INSERT LOW_PRIORITY INTO"}
 @@ "U" :> {"INTERSECT", "INTERSECT ALL"}
 @@ "f" :> {"EXISTS", "EXP", "EXPORT_SET", "EXTRACT", "EXTRACTVALUE",
       "EXTRACT_VALUE", "FIELD", "FILEDATETIME", "FILEGROUPPROPERTY",
       "FILEGROUP_ID", "FILEGROUP_NAME", "FILELEN", "FILEPROPERTY",
       "FILETOBLOB", "FILETOCLOB", "FILE_ID", "FILE_IDEX", "FILE_NAME",
       "FIND_IN_SET", "FIRST_VALUE", "FLOOR", "FN_VIRTUALFILESTATS",
       "FORMAT", "FOUND_ROWS", "FROM_BASE64", "FROM_DAYS", "FROM_UNIXTIME",
       "FULLTEXTCATALOGPROPERTY", "FULLTEXTSERVICEPROPERTY",
       "GENERATE_SERIES", "GENERATE_SUBSCRIPTS", "GETATTR", "GETDATE",
       "GETUTCDATE", "GET_BIT", "GET_BYTE", "GET_FORMAT", "GET_LOCK",
       "GREATEST", "GROUPING", "GROUPING_ID", "GROUP_CONCAT", "HASHBYTES",
       "HAS_PERMS_BY_NAME", "HEX", "HOST_NAME", "HOUR", "IDENTIFY",
       "IDENT_CURRENT", "IDENT_INCR", "IDENT_SEED", "IF", "IF EXISTS",
       "IF NOT EXISTS", "IFF", "IFNULL", "IIF", "INDEXKEY_PROPERTY",
       "INDEXPROPERTY", "INDEX_COL", "INET_ATON", "INET_NTOA", "INITCAP",
       "INSTR", "INSTRREV"}
 @@ "k" :> {"EXIT", "EXPLAIN", "FETCH", "FOR UPDATE", "FOR UPDATE NOWAIT",
       "FOR UPDATE OF", "FOR UPDATE SKIP", "FOR UPDATE SKIP LOCKED",
       "FOR UPDATE WAIT", "FORCE", "FOREIGN", "FROM", "FULL JOIN",
       "FULL OUTER", "FULL OUTER JOIN", "FULLTEXT", "FUNCTION", "GRANT",
       "HIGH_PRIORITY", "HOUR_MICROSECOND", "HOUR_MINUTE", "HOUR_SECOND",
       "IGNORE", "IN", "IN BOOLEAN MODE", "INDEX", "INFILE", "INNER",
       "INNER JOIN", "INOUT", "INSENSITIVE", "INTERVAL", "INTO",
       "INTO DUMPFILE", "INTO OUTFILE"}
 @@ "n" :> {"FOR", "GROUP", "IF NOT", "IN BOOLEAN", "IS DISTINCT",
       "IS NOT DISTINCT"}
 @@ "o" :> {"IS", "IS DISTINCT FROM", "IS NOT", "IS NOT DISTINCT FROM"}
 @@ "t" :> {"FLOAT", "FLOAT4", "FLOAT8", "INT", "INT1", "INT2", "INT3", "INT4",
       "INT8", "INTEGER"}

\* From ISDATE to OFFSET.
WORDS_4 ==
    "B" :> {"LIMIT"}
 @@ "T" :> {"LOAD DATA", "LOAD XML"}
 @@ "f" :> {"ISDATE", "ISEMPTY", "ISFINITE", "ISNULL", "ISNUMERIC",
       "IS_FREE_LOCK", "IS_MEMBER", "IS_OBJECTSIGNED", "IS_ROLEMEMBER",
       "IS_SRVROLEMEMBER", "IS_USED_LOCK", "JSON_KEYS", "JULIANDAY",
       "JUSTIFY_DAYS", "JUSTIFY_HOURS", "JUSTIFY_INTERVAL", "KEY_GUID",
       "KEY_ID", "LAG", "LASTVAL", "LAST_INSERT_ID", "LAST_INSERT_ROWID",
       "LAST_VALUE", "LCASE", "LEAD", "LEAST", "LENGTH", "LN",
       "LOAD_EXTENSION", "LOAD_FILE", "LOCATE", "LOG", "LOG10", "LOG2",
       "LOWER", "LOWER_INC", "LOWER_INF", "LPAD", "LTRIM", "MAKEDATE",
       "MAKE_SET", "MASKLEN", "MASTER_POS_WAIT", "MAX", "MD5", "MICROSECOND",
       "MID", "MIN", "MINUTE", "MKDIR", "MONTH", "MONTHNAME", "NAME_CONST",
       "NETMASK", "NEXTVAL", "NOW", "NTH_VALUE", "NTILE", "NULLIF", "NZ",
       "OBJECTPROPERTY", "OBJECTPROPERTYEX", "OBJECT_DEFINITION",
       "OBJECT_ID", "OBJECT_NAME", "OBJECT_SCHEMA_NAME", "OCT", "OCTET_LENGTH"}
 @@ "k" :> {"ITERATE", "JOIN", "KEYS", "KILL", "LEADING", "LEAVE", "LEFT JOIN",
       "LEFT OUTER", "LEFT OUTER JOIN", "LINEAR", "LINES", "LOAD",
       "LOCK IN SHARE MODE", "LOCK TABLE", "LOCK TABLES", "LONGBLOB",
       "LONGTEXT", "LOOP", "LOW_PRIORITY", "MASTER_BIND",
       "MASTER_SSL_VERIFY_SERVER_CERT", "MATCH", "MAXVALUE", "MEDIUMBLOB",
       "MEDIUMINT", "MEDIUMTEXT", "MERGE", "MIDDLEINT", "MINUTE_MICROSECOND",
       "MINUTE_SECOND", "MODIFIES", "NATURAL FULL",
       "NATURAL FULL OUTER JOIN", "NATURAL INNER", "NATURAL JOIN",
       "NATURAL LEFT", "NATURAL LEFT OUTER", "NATURAL LEFT OUTER JOIN",
       "NATURAL OUTER", "NATURAL RIGHT", "NATURAL RIGHT OUTER JOIN",
       "NEXT VALUE FOR", "NOT IN", "NOTNULL", "NOWAIT", "NO_WRITE_TO_BINLOG",
       "OFFSET"}
 @@ "n" :> {"LEFT", "LOCK", "LOCK IN", "LOCK IN SHARE", "MODE", "NATURAL",
       "NEXT VALUE"}
 @@ "o" :> {"LIKE", "MOD", "NOT", "NOT BETWEEN", "NOT LIKE", "NOT REGEXP",
       "NOT RLIKE", "NOT SIMILAR", "NOT SIMILAR TO"}
 @@ "t" :> {"MONEY", "NUMERIC"}
 @@ "v" :> {"LOCALTIME", "LOCALTIMESTAMP", "NULL"}

\* From OID to SCOPE_IDENTITY.
WORDS_5 ==
    "&" :> {"OR"}
 @@ "B" :> {"ORDER BY", "OWN3D BY", "PARTITION BY"}
 @@ "E" :> {"RAISEERROR"}
 @@ "T" :> {"PRINT"}
 @@ "f" :> {"OLD_PASSWORD", "OPENDATASOURCE", "OPENQUERY", "OPENROWSET",
       "OPENXML", "ORD", "ORIGINAL_DB_NAME", "ORIGINAL_LOGIN", "OVERLAPS",
       "OVERLAY", "PARSENAME", "PATHINDEX", "PATINDEX", "PERCENTILE_COUNT",
       "PERCENTILE_DISC", "PERCENTILE_RANK", "PERCENT_RANK", "PERIOD_ADD",
       "PERIOD_DIFF", "PERMISSIONS", "PG_ADVISORY_LOCK", "PG_BACKEND_PID",
       "PG_CANCEL_BACKEND", "PG_CLIENT_ENCODING", "PG_CONF_LOAD_TIME",
       "PG_CREATE_RESTORE_POINT", "PG_HAS_ROLE", "PG_IS_IN_RECOVERY",
       "PG_IS_OTHER_TEMP_SCHEMA", "PG_LISTENING_CHANNELS", "PG_LS_DIR",
       "PG_MY_TEMP_SCHEMA", "PG_POSTMASTER_START_TIME",
       "PG_READ_BINARY_FILE", "PG_READ_FILE", "PG_RELOAD_CONF",
       "PG_ROTATE_LOGFILE", "PG_SLEEP", "PG_START_BACKUP", "PG_STAT_FILE",
       "PG_STOP_BACKUP", "PG_SWITCH_XLOG", "PG_TERMINATE_BACKEND",
       "PG_TRIGGER_DEPTH", "PI", "POSITION", "POW", "POWER",
       "PROCEDURE ANALYSE", "PUBLISHINGSERVERNAME", "PWDCOMPARE",
       "PWDENCRYPT", "QUARTER", "QUOTE", "QUOTENAME", "QUOTE_IDENT",
       "QUOTE_LITERAL", "QUOTE_NULLABLE", "RADIANS", "RAND", "RANDOM",
       "RANDOMBLOB", "RANK", "REGEXP_INSTR", "REGEXP_MATCHES",
       "REGEXP_REPLACE", "REGEXP_SPLIT_TO_ARRAY", "REGEXP_SPLIT_TO_TABLE",
       "REGEXP_SUBSTR", "RELEASE_LOCK", "REPLICATE", "REVERSE", "ROUND",
       "ROW", "ROW_COUNT", "ROW_NUMBER", "ROW_TO_JSON", "RPAD", "RTRIM",
       "SCHAMA_NAME", "SCHEMA_ID", "SCOPE_IDENTITY"}
 @@ "k" :> {"ONE_SHOT", "OPEN", "OPTIMIZE", "OPTION", "OPTIONALLY", "OUTFILE",
       "OWN3D", "PARTITION", "PRECISION", "PREVIOUS VALUE FOR", "PRIMARY",
       "PROCEDURE", "PURGE", "RANGE", "READ", "READ WRITE", "READS",
       "READ_WRITE", "REFERENCES", "RELEASE", "RENAME", "REPEAT", "REPLACE",
       "REQUIRE", "RESIGNAL", "RESTRICT", "RETURN", "REVOKE", "RIGHT JOIN",
       "RIGHT OUTER", "RIGHT OUTER JOIN", "SCHEMA", "SCHEMAS"}
 @@ "n" :> {"ORDER", "OUT", "OUTER", "PASSWORD", "PREVIOUS VALUE", "RIGHT"}
 @@ "o" :> {"REGEXP", "RLIKE"}
 @@ "t" :> {"OID", "REAL", "REGCLASS", "REGCONFIG", "REGDICTIONARY", "REGOPER",
       "REGOPERATOR", "REGPROC", "REGPROCEDURE", "REGTYPE"}

\* From SECOND_MICROSECOND to TRUE.
WORDS_6 ==
    "1" :> {"TRUE"}
 @@ "E" :> {"SELECT", "SELECT ALL", "SELECT DISTINCT", "SET"}
 @@ "T" :> {"SHUTDOWN"}
 @@ "f" :> {"SEC_TO_TIME", "SERVERPROPERTY", "SESSION_USER", "SETATTR", "SETSEED",
       "SETVAL", "SET_BIT", "SET_BYTE", "SET_CONFIG", "SET_MASKLEN", "SHA",
       "SHA1", "SHA2", "SIGN", "SIGNBYASMKEY", "SIGNBYCERT", "SIN", "SLEEP",
       "SMALLDATETIMEFROMPARTS", "SOME", "SOUNDEX", "SPACE", "SPLIT_PART",
       "SQL_VARIANT_PROPERTY", "SQRT", "STATEMENT_TIMESTAMP", "STATS_DATE",
       "STDDEV", "STDDEV_POP", "STDDEV_SAMP", "STRCMP", "STRCOMP", "STRCONV",
       "STRING_AGG", "STRING_TO_ARRAY", "STRPOS", "STR_TO_DATE", "STUFF",
       "SUBDATE", "SUBSTR", "SUBSTRING", "SUBSTRING_INDEX", "SUBTIME", "SUM",
       "SUSER_ID", "SUSER_NAME", "SUSER_SID", "SUSER_SNAME", "SWITCHOFFET",
       "SYS.FN_BUILTIN_PERMISSIONS", "SYS.FN_GET_AUDIT_FILE",
       "SYS.FN_MY_PERMISSIONS", "SYS.STRAGG", "SYSDATE", "SYSDATETIME",
       "SYSDATETIMEOFFSET", "SYSTEM_USER", "SYSUTCDATETME", "TAN",
       "TERTIARY_WEIGHTS", "TEXTPOS", "TEXTPTR", "TEXTVALID", "TIMEDIFF",
       "TIMEFROMPARTS", "TIMEOFDAY", "TIMESERIAL", "TIMESTAMPADD",
       "TIMEVALUE", "TIME_FORMAT", "TIME_TO_SEC", "TODATETIMEOFFSET",
       "TOTAL", "TOTAL_CHANGES", "TO_ASCII", "TO_BASE64", "TO_CHAR",
       "TO_DATE", "TO_DAYS", "TO_HEX", "TO_NUMBER", "TO_SECONDS",
       "TO_TIMESTAMP", "TRANSACTION_TIMESTAMP", "TRANSLATE",
       "TRIGGER_NESTLEVEL", "TRIM"}
 @@ "k" :> {"SECOND_MICROSECOND", "SENSITIVE", "SEPARATOR", "SIGNAL", "SIMILAR",
       "SPATIAL", "SPECIFIC", "SQL", "SQLEXCEPTION", "SQLSTATE",
       "SQLWARNING", "SQL_BIG_RESULT", "SQL_BUFFER_RESULT", "SQL_CACHE",
       "SQL_CALC_FOUND_ROWS", "SQL_NO_CACHE", "SQL_SMALL_RESULT", "SSL",
       "STARTING", "STRAIGHT_JOIN", "SYSCOLUMNS", "SYSOBJECTS", "SYSUSERS",
       "TERMINATED", "THEN", "TIME", "TINYBLOB", "TINYINT", "TINYTEXT",
       "TOP", "TRIGGER"}
 @@ "n" :> {"SHOW", "SYS.DATABASE_NAME", "TABLE", "TRAILING"}
 @@ "o" :> {"SIMILAR TO", "SOUNDS", "SOUNDS LIKE"}
 @@ "t" :> {"SERIAL", "SERIAL2", "SERIAL4", "SERIAL8", "SMALLINT", "SMALLSERIAL",
       "TEXT", "TIMESTAMP"}

\* From TRUNC to ~*.
WORDS_7 ==
    "&" :> {"XOR", "||"}
 @@ "E" :> {"UPDATE", "WAITFOR DELAY", "WAITFOR RECEIVE", "WAITFOR TIME"}
 @@ "T" :> {"TRY", "USE", "WHILE"}
 @@ "U" :> {"UNION", "UNION ALL", "UNION ALL DISTINCT", "UNION DISTINCT",
       "UNION DISTINCT ALL", "UNI_ON"}
 @@ "f" :> {"TRUNC", "TRUNCATE", "TRY_CAST", "TRY_CONVERT", "TRY_PARSE", "TYPEOF",
       "TYPEPROPERTY", "TYPE_ID", "TYPE_NAME", "UCASE", "UNCOMPRESS",
       "UNCOMPRESS_LENGTH", "UNHEX", "UNICODE", "UNIX_TIMESTAMP", "UNNEST",
       "UPDATEXML", "UPPER", "UPPER_INC", "UPPER_INF", "USER_LOCK.SLEEP",
       "USING", "UTL_HTTP.REQUEST", "UTL_INADDR.GET_HOST_ADDRESS",
       "UTL_INADDR.GET_HOST_NAME", "UUID", "UUID_SHORT", "VAR", "VARIANCE",
       "VARP", "VAR_POP", "VAR_SAMP", "VERIFYSIGNEDBYASMKEY",
       "VERIFYSIGNEDBYCERT", "VERSION", "WEEK", "WEEKDAY", "WEEKDAYNAME",
       "WEEKOFYEAR", "WIDTH_BUCKET", "XMLAGG", "XMLCOMMENT", "XMLCONCAT",
       "XMLELEMENT", "XMLEXISTS", "XMLFOREST", "XMLFORMAT", "XMLPI",
       "XMLROOT", "XMLTYPE", "XML_IS_WELL_FORMED", "XPATH", "XPATH_EXISTS",
       "YEAR", "YEARWEEK", "ZEROBLOB"}
 @@ "k" :> {"UNDO", "UNLOCK", "UNSIGNED", "USAGE", "UTC_DATE", "UTC_TIME",
       "UTC_TIMESTAMP", "VALUES", "VARBINARY", "VARCHARACTER", "VARYING",
       "WAIT", "WHEN", "WHERE", "WITH ROLLUP", "XP_EXECRESULTSET",
       "YEAR_MONTH", "ZEROFILL"}
 @@ "n" :> {"UNIQUE", "USER", "USER_ID", "USER_NAME", "WAITFOR", "WITH"}
 @@ "o" :> {"UESCAPE", "^=", "|/", "|=", "~*"}
 @@ "t" :> {"VARCHAR", "VOID", "_ARMSCII8", "_ASCII", "_BIG5", "_BINARY",
       "_CP1250", "_CP1251", "_CP1257", "_CP850", "_CP852", "_CP866",
       "_CP932", "_DEC8", "_EUCJPMS", "_EUCKR", "_GB2312", "_GBK",
       "_GEOSTD8", "_GREEK", "_HEBREW", "_HP8", "_KEYBCS2", "_KOI8R",
       "_KOI8U", "_LATIN1", "_LATIN2", "_LATIN5", "_LATIN7", "_MACCE",
       "_MACROMAN", "_SJIS", "_SWE7", "_TIS620", "_UJIS", "_USC2", "_UTF8"}
 @@ "v" :> {"UNKNOWN"}

FINGERPRINTS == {
    "01&1", "01&NF(", "01&S", "01)C", "01)O1", "01,F(1", "01;T(1", "01B1", "01C",
    "01E1C", "01EUF(", "01N(1O", "01N(F(", "01NEF(", "01NUE", "01OV", "01U",
    "01U1C", "01UC", "01UE", "01UE1", "01UEC", "01UEF(", "0E1NC", "0EN(1O",
    "0EN(F(", "0N&1", "0N&1;", "0N1UE", "0NC", "0NE1C", "0NEUF(", "0NKN",
    "0NU1C", "0NUC", "0NUE", "0NUE1", "0NUEC", "0NUEF(", "0S&1", "0S&S",
    "0S1V", "0SC", "0SOS", "0SOV", "0UE1", "0UE1C", "0VC", "0VOS", "0X"}

WordTypes == {"&", "1", "A", "B", "E", "T", "U", "f", "k", "n", "o", "t", "v"}
sql_keywords == <<SYMBOLS, WORDS_1, WORDS_2, WORDS_3, WORDS_4, WORDS_5, WORDS_6, WORDS_7>>
=============================================================================
